---------------------------- MODULE Spec2Model ----------------------------
(***************************************************************************)
(* A state-machine model of the HFT-Arena matching core:                   *)
(*   src/src/orders.py           Order, Trade                              *)
(*   src/src/orderbook.py        OrderBook (one per symbol)                *)
(*   src/src/matching_engine.py  LatencyProfile, OrderEvent, MatchingEngine*)
(*                                                                         *)
(* Python objects are records whose fields are the attributes the code     *)
(* assigns: an attribute the code never assigns is not a field of the      *)
(* record, and reading it raises AttributeError, as in Python.  Times and  *)
(* prices are floats in the code and integers (ticks) here.  Every call    *)
(* leaves its outcome (value returned or exception raised) in ret.         *)
(***************************************************************************)
EXTENDS Integers, Sequences, FiniteSets, TLC

VARIABLES
    now,              \* time.time(): the wall clock, in ticks
    ord,              \* the Order objects created so far, by order_id
    books,            \* MatchingEngine.order_books: symbol -> OrderBook
    event_queue,      \* MatchingEngine.event_queue: a heapq list of OrderEvent
    latency_profiles, \* MatchingEngine.latency_profiles: agent_id -> LatencyProfile
    stats,            \* MatchingEngine.stats
    trade_callbacks,  \* MatchingEngine.trade_callbacks: the callbacks added
    market_data_callbacks, \* MatchingEngine.market_data_callbacks
    ret,              \* outcome of the last call
    popped,           \* history: the orders of the new_order events popped by
                      \* process_events and not dropped for a latency-budget
                      \* violation since reset, in the order they were popped
    callback_calls,   \* history: the calls made to registered callbacks, in
                      \* the order they were made
    running,          \* MatchingEngine.running
    lock,             \* MatchingEngine.lock: the thread holding it, or Unlocked
    position          \* where each thread is: at is "idle" (a caller's thread
                      \* between calls), "unstarted" (the worker), or the
                      \* code the thread is in

vars == <<now, ord, books, event_queue, latency_profiles, stats,
         trade_callbacks, market_data_callbacks, ret, popped, callback_calls,
         running, lock, position>>

----------------------------------------------------------------------------
(* Bounds of the model *)

MaxTime == 2          \* the clock stops advancing here
MaxOrders == 2        \* Order objects created in one behaviour
MaxQty == 2           \* largest order quantity a caller passes
MaxPrice == 2         \* largest limit price a caller passes
MaxCalls == 2         \* direct calls of _update_trade_stats in one behaviour
MaxEvents == 4        \* orders submitted where equal timestamps are looked at
MaxCallbacks == 1     \* callbacks added to each callback list
MaxLatency == 3       \* largest base_latency and jitter of a LatencyProfile

----------------------------------------------------------------------------
(* Inputs *)

Symbols == <<"AAPL", "MSFT">>       \* the engine's symbol list
SymbolSet == {Symbols[i] : i \in 1..Len(Symbols)}
OrderSymbols == SymbolSet \cup {"ZZZ"}   \* "ZZZ": a symbol the engine has no book for
Agents == {"agent1", "agent2"}
Callbacks == {"callback1"}          \* the callables callers add as callbacks
Sides == {"buy", "sell"}
OrderTypes == {"limit", "market"}

None == -99           \* Python's None where a number is expected

\* the threads: the one start_simulation starts, the one a further
\* start_simulation starts while the first is alive, and the callers' threads
Worker == "worker"
Workers == {Worker, "worker2"}
Users == {"user1", "user2"}
Threads == Users \cup Workers

\* threading.Lock() held by no thread
Unlocked == "unlocked"

\* the outcome of a call: the value it returned (val), nothing but the end of
\* a function that has no return statement, or the exception it raised

Returned(op, args, val) == [op |-> op, args |-> args, exc |-> "none", val |-> val]
Completed(op, args) == [op |-> op, args |-> args, exc |-> "none"]
Raised(op, args, e) == [op |-> op, args |-> args, exc |-> e]

Min(a, b) == IF a <= b THEN a ELSE b
Max(a, b) == IF a >= b THEN a ELSE b

\* hasattr(obj, name)
HasAttr(obj, name) == name \in DOMAIN obj

\* obj with attribute name set to value (assignment creates the attribute)
SetAttr(obj, name, value) ==
    [a \in DOMAIN obj \cup {name} |-> IF a = name THEN value ELSE obj[a]]

\* d with d[k] = v (dict item assignment)
SetItem(d, k, v) ==
    [x \in DOMAIN d \cup {k} |-> IF x = k THEN v ELSE d[x]]

----------------------------------------------------------------------------
(* heapq on Python lists: position p of the list is element p+1 here *)

\* an OrderEvent.__lt__ that puts the later event first
EventLtLatestFirst(x, y) ==
    IF x.timestamp > y.timestamp THEN "lt" ELSE "ge"

\* OrderEvent.__lt__: by timestamp alone
EventLt(x, y) ==
    IF x.timestamp < y.timestamp THEN "lt" ELSE "ge"

\* tuple (key, timestamp, order) < tuple: element by element; two distinct
\* Order objects are never ==, and Order defines no <, so a tie on key and
\* timestamp raises TypeError; the same object twice compares equal
TupleLt(x, y) ==
    IF x[1] # y[1] THEN (IF x[1] < y[1] THEN "lt" ELSE "ge")
    ELSE IF x[2] # y[2] THEN (IF x[2] < y[2] THEN "lt" ELSE "ge")
    ELSE IF x[3] = y[3] THEN "ge"
    ELSE "TypeError"

\* x < y for the items of a heap of the given kind
ItemLt(kind, x, y) ==
    IF kind = "event" THEN EventLt(x, y) ELSE TupleLt(x, y)

Swap(heap, p, q) ==
    [heap EXCEPT ![p + 1] = heap[q + 1], ![q + 1] = heap[p + 1]]

RECURSIVE SiftDown(_, _, _, _)
\* _siftdown: move the item at pos up while it is < its parent
SiftDown(kind, heap, startpos, pos) ==
    IF pos > startpos
    THEN LET parentpos == (pos - 1) \div 2
             c == ItemLt(kind, heap[pos + 1], heap[parentpos + 1])
         IN  IF c = "TypeError" THEN [heap |-> heap, exc |-> "TypeError"]
             ELSE IF c = "lt"
                  THEN SiftDown(kind, Swap(heap, pos, parentpos), startpos, parentpos)
                  ELSE [heap |-> heap, exc |-> "none"]
    ELSE [heap |-> heap, exc |-> "none"]

RECURSIVE SiftUpLoop(_, _, _, _)
\* _siftup: move the smaller child up until a leaf is reached, then _siftdown
SiftUpLoop(kind, heap, startpos, pos) ==
    LET endpos == Len(heap)
        limit == endpos \div 2
    IN  IF pos < limit
        THEN LET childpos == 2 * pos + 1
                 c == IF childpos + 1 < endpos
                      THEN ItemLt(kind, heap[childpos + 1], heap[childpos + 2])
                      ELSE "lt"
                 child == IF c = "lt" THEN childpos ELSE childpos + 1
             IN  IF c = "TypeError" THEN [heap |-> heap, exc |-> "TypeError"]
                 ELSE SiftUpLoop(kind, Swap(heap, pos, child), startpos, child)
        ELSE SiftDown(kind, heap, startpos, pos)

\* heapq.heappush(heap, item)
HeapPush(kind, heap, item) ==
    SiftDown(kind, Append(heap, item), 0, Len(heap))

\* heappop's result once the last element, moved to the root, was sifted: r
PopSifted(item, r) == [heap |-> r.heap, item |-> item, exc |-> r.exc]

\* heapq.heappop(heap) on a non-empty heap: [heap, item, exc]
HeapPop(kind, heap) ==
    IF Len(heap) = 1
    THEN [heap |-> <<>>, item |-> heap[1], exc |-> "none"]
    ELSE PopSifted(heap[1],
             SiftUpLoop(kind,
                 [SubSeq(heap, 1, Len(heap) - 1) EXCEPT ![1] = heap[Len(heap)]],
                 0, 0))

----------------------------------------------------------------------------
(* orders.py: Order and Trade *)

\* Order.__post_init__: the checks that make the constructor raise ValueError
OrderRaises(order_type, quantity, price) ==
    \/ (order_type = "limit" /\ price = None)
    \/ quantity <= 0

\* Order(...): the object the dataclass constructor builds; status is the class
\* attribute OrderStatus.PENDING until an instance assignment replaces it
NewOrder(id, agent, symbol, side, order_type, quantity, price, latency, ts) ==
    [agent_id |-> agent, symbol |-> symbol, side |-> side,
     order_type |-> order_type, quantity |-> quantity, price |-> price,
     latency_delay |-> latency, order_id |-> id, timestamp |-> ts,
     filled_quantity |-> 0, status |-> "pending",
     effective_timestamp |-> ts + latency]

\* Order.remaining_quantity
Remaining(order) == order.quantity - order.filled_quantity

\* a _create_trade that stamps the trade with the buyer's effective timestamp
CreateTradeAtBuyerTime(symbol, buy_order, sell_order, quantity, price) ==
    [symbol |-> symbol, quantity |-> quantity, price |-> price,
     timestamp |-> buy_order.effective_timestamp,
     buy_order_id |-> buy_order.order_id,
     sell_order_id |-> sell_order.order_id,
     buyer_agent_id |-> buy_order.agent_id,
     seller_agent_id |-> sell_order.agent_id]

\* OrderBook._create_trade
CreateTrade(symbol, buy_order, sell_order, quantity, price) ==
    [symbol |-> symbol, quantity |-> quantity, price |-> price,
     timestamp |-> Max(buy_order.effective_timestamp,
                       sell_order.effective_timestamp),
     buy_order_id |-> buy_order.order_id,
     sell_order_id |-> sell_order.order_id,
     buyer_agent_id |-> buy_order.agent_id,
     seller_agent_id |-> sell_order.agent_id]

----------------------------------------------------------------------------
(* orderbook.py: OrderBook.  The operators thread the book b, the order     *)
(* table o and the local trade list tr, and return them with exc, the      *)
(* exception raised ("none": the code ran to its end).                      *)

\* OrderBook.__init__: the attributes it assigns.  It assigns askks, and no
\* attribute named asks.
InitBook(symbol) ==
    [symbol |-> symbol, bids |-> <<>>, askks |-> <<>>, orders |-> {},
     trades |-> <<>>, last_trade_price |-> None, last_trade_quantity |-> 0]

\* the fill status _update_order_fill leaves (the old one when neither branch runs)
FillStatus(order, filled) ==
    IF filled = order.quantity THEN "filled"
    ELSE IF filled > 0 THEN "partial_fill"
    ELSE order.status

\* OrderBook._update_order_fill, on the order table
UpdateOrderFill(o, id, fill_quantity) ==
    [o EXCEPT ![id].filled_quantity = @ + fill_quantity,
              ![id].status = FillStatus(o[id], o[id].filled_quantity + fill_quantity)]

\* the heap an incoming order matches against, and the heap it rests in
OppHeap(side) == IF side = "buy" THEN "asks" ELSE "bids"
OwnHeap(side) == IF side = "buy" THEN "bids" ELSE "asks"

\* the price of a heap entry (bids are keyed by the negated price)
EntryPrice(heapname, entry) == IF heapname = "bids" THEN -entry[1] ELSE entry[1]

\* "stop if no more profitable matches"
NoCross(order, resting_price) ==
    IF order.side = "buy" THEN resting_price > order.price
    ELSE resting_price < order.price

\* the trade of incoming order id against resting order rid
TradeOf(b, o, id, rid, qty, price) ==
    IF o[id].side = "buy"
    THEN CreateTrade(b.symbol, o[id], o[rid], qty, price)
    ELSE CreateTrade(b.symbol, o[rid], o[id], qty, price)

\* "removes fully filled orders", after the heappop p:
\* del self.orders[...] raises KeyError when the id is not indexed
RemovePopped(b, o, trade, rid, opp, p) ==
    [b |-> IF p.exc = "none" /\ rid \in b.orders
           THEN [b EXCEPT ![opp] = p.heap, !.orders = @ \ {rid}]
           ELSE [b EXCEPT ![opp] = p.heap],
     o |-> o, trade |-> trade,
     exc |-> IF p.exc # "none" THEN p.exc
             ELSE IF rid \notin b.orders THEN "KeyError" ELSE "none"]

\* "removes fully filled orders", o being the order table after both fills
RemoveFilled(b, o, trade, rid, opp) ==
    IF Remaining(o[rid]) = 0
    THEN RemovePopped(b, o, trade, rid, opp, HeapPop("tuple", b[opp]))
    ELSE [b |-> b, o |-> o, trade |-> trade, exc |-> "none"]

\* one fill of the match loop: the trade, both fills, the removal
FillStep(b, o, id, rid, opp, qty, price) ==
    RemoveFilled(b,
                 UpdateOrderFill(UpdateOrderFill(o, id, qty), rid, qty),
                 TradeOf(b, o, id, rid, qty, price), rid, opp)

RECURSIVE LimitLoop(_, _, _, _)

\* the limit loop after "skip cancelled/filled orders" popped the top: p
LimitEvicted(b, o, id, tr, opp, p) ==
    IF p.exc # "none"
    THEN [b |-> [b EXCEPT ![opp] = p.heap], o |-> o, tr |-> tr, exc |-> p.exc]
    ELSE LimitLoop([b EXCEPT ![opp] = p.heap], o, id, tr)

\* the limit loop after one fill: f
LimitFilled(id, tr, f) ==
    IF f.exc # "none"
    THEN [b |-> f.b, o |-> f.o, tr |-> tr, exc |-> f.exc]
    ELSE LimitLoop(f.b, f.o, id, Append(tr, f.trade))

\* the while loop of _execute_limit_order (both sides)
LimitLoop(b, o, id, tr) ==
    LET order == o[id]
        opp == OppHeap(order.side)
        Done(e) == [b |-> b, o |-> o, tr |-> tr, exc |-> e]
    IN  IF Remaining(order) <= 0 THEN Done("none")
        ELSE IF ~HasAttr(b, opp) THEN Done("AttributeError")
        ELSE IF Len(b[opp]) = 0 THEN Done("none")
        ELSE LET top == b[opp][1]
                 rid == top[3]
                 rprice == EntryPrice(opp, top)
             IN  IF o[rid].status # "pending"
                 THEN LimitEvicted(b, o, id, tr, opp, HeapPop("tuple", b[opp]))
                 ELSE IF NoCross(order, rprice) THEN Done("none")
                 ELSE LimitFilled(id, tr,
                          FillStep(b, o, id, rid, opp,
                                   Min(Remaining(order), Remaining(o[rid])),
                                   rprice))

\* the push of RestOrder done: h
RestPushed(b, own, h) == [b |-> [b EXCEPT ![own] = h.heap], exc |-> h.exc]

\* "add remaining qty to book": index first, then the push on the own heap
RestOrder(b, o, id) ==
    LET order == o[id]
        own == OwnHeap(order.side)
        key == IF order.side = "buy" THEN -order.price ELSE order.price
    IN  IF Remaining(order) <= 0 THEN [b |-> b, exc |-> "none"]
        ELSE IF ~HasAttr(b, own)
        THEN [b |-> [b EXCEPT !.orders = @ \cup {id}], exc |-> "AttributeError"]
        ELSE RestPushed([b EXCEPT !.orders = @ \cup {id}], own,
                        HeapPush("tuple", b[own], <<key, order.timestamp, id>>))

\* _execute_limit_order after "add remaining qty to book": r
LimitRested(m, r) == [b |-> r.b, o |-> m.o, tr |-> m.tr, exc |-> r.exc]

\* _execute_limit_order after its match loop: m
LimitMatched(m, id) ==
    IF m.exc # "none" THEN m ELSE LimitRested(m, RestOrder(m.b, m.o, id))

\* _execute_limit_order indexing the incoming order before its match loop
ExecuteLimitOrderIndexFirst(b, o, id) ==
    LimitMatched(LimitLoop([b EXCEPT !.orders = @ \cup {id}], o, id, <<>>), id)

\* OrderBook._execute_limit_order
ExecuteLimitOrder(b, o, id) == LimitMatched(LimitLoop(b, o, id, <<>>), id)

RECURSIVE MarketLoop(_, _, _, _, _)

\* the market loop after "skip cancelled/filled orders" popped the top: p
MarketEvicted(b, o, id, tr, remaining_qty, opp, p) ==
    IF p.exc # "none"
    THEN [b |-> [b EXCEPT ![opp] = p.heap], o |-> o, tr |-> tr, exc |-> p.exc]
    ELSE MarketLoop([b EXCEPT ![opp] = p.heap], o, id, tr, remaining_qty)

\* the market loop after one fill: f
MarketFilled(id, tr, remaining_qty, f) ==
    IF f.exc # "none"
    THEN [b |-> f.b, o |-> f.o, tr |-> tr, exc |-> f.exc]
    ELSE MarketLoop(f.b, f.o, id, Append(tr, f.trade),
                    remaining_qty - f.trade.quantity)

\* the while loop of _execute_market_order (both sides); remaining_qty is the
\* local that starts at order.quantity
MarketLoop(b, o, id, tr, remaining_qty) ==
    LET order == o[id]
        opp == OppHeap(order.side)
        Done(e) == [b |-> b, o |-> o, tr |-> tr, exc |-> e]
    IN  IF remaining_qty <= 0 THEN Done("none")
        ELSE IF ~HasAttr(b, opp) THEN Done("AttributeError")
        ELSE IF Len(b[opp]) = 0 THEN Done("none")
        ELSE LET top == b[opp][1]
                 rid == top[3]
             IN  IF o[rid].status # "pending"
                 THEN MarketEvicted(b, o, id, tr, remaining_qty, opp,
                                    HeapPop("tuple", b[opp]))
                 ELSE MarketFilled(id, tr, remaining_qty,
                          FillStep(b, o, id, rid, opp,
                                   Min(remaining_qty, Remaining(o[rid])),
                                   EntryPrice(opp, top)))

\* OrderBook._execute_market_order
ExecuteMarketOrder(b, o, id) ==
    MarketLoop(b, o, id, <<>>, o[id].quantity)

\* add_order after the execution m: "store trades", "update market data";
\* an exception leaves the trade log and the last-trade fields as they were
StoreTrades(m) ==
    IF m.exc # "none" THEN m
    ELSE [b |-> IF Len(m.tr) > 0
                THEN [m.b EXCEPT
                        !.trades = @ \o m.tr,
                        !.last_trade_price = m.tr[Len(m.tr)].price,
                        !.last_trade_quantity = m.tr[Len(m.tr)].quantity]
                ELSE m.b,
          o |-> m.o, tr |-> m.tr, exc |-> "none"]

\* OrderBook.add_order: [b, o, tr, exc]
AddOrder(b, o, id) ==
    IF o[id].order_type = "market"
    THEN StoreTrades(ExecuteMarketOrder(b, o, id))
    ELSE StoreTrades(ExecuteLimitOrder(b, o, id))

\* cancel_order leaving the cancelled order in the orders index
CancelOrderKeepIndexed(b, o, id) ==
    IF id \in b.orders
    THEN [b |-> b, o |-> [o EXCEPT ![id].status = "cancelled"], val |-> TRUE]
    ELSE [b |-> b, o |-> o, val |-> FALSE]

\* OrderBook.cancel_order: [b, o, val]
CancelOrder(b, o, id) ==
    IF id \in b.orders
    THEN [b |-> [b EXCEPT !.orders = @ \ {id}],
          o |-> [o EXCEPT ![id].status = "cancelled"], val |-> TRUE]
    ELSE [b |-> b, o |-> o, val |-> FALSE]

RECURSIVE CleanHeap(_, _)

\* _clean_heap after its heappop: p
CleanPopped(p, o) ==
    IF p.exc # "none" THEN [heap |-> p.heap, exc |-> p.exc]
    ELSE CleanHeap(p.heap, o)

\* OrderBook._clean_heap: pop while the top order's status is not PENDING
CleanHeap(heap, o) ==
    IF Len(heap) = 0 THEN [heap |-> heap, exc |-> "none"]
    ELSE IF o[heap[1][3]].status = "pending" THEN [heap |-> heap, exc |-> "none"]
    ELSE CleanPopped(HeapPop("tuple", heap), o)

\* get_best_bid / get_best_ask after _clean_heap: c; sign is -1 for bids
BestOf(b, heapname, sign, c) ==
    [b |-> [b EXCEPT ![heapname] = c.heap],
     val |-> IF c.exc = "none" /\ Len(c.heap) > 0
             THEN sign * c.heap[1][1] ELSE None,
     exc |-> c.exc]

\* OrderBook.get_best_bid: [b, val, exc]
GetBestBid(b, o) == BestOf(b, "bids", -1, CleanHeap(b.bids, o))

\* OrderBook.get_best_ask: [b, val, exc]
GetBestAsk(b, o) ==
    IF ~HasAttr(b, "asks") THEN [b |-> b, val |-> None, exc |-> "AttributeError"]
    ELSE BestOf(b, "asks", 1, CleanHeap(b.asks, o))

RECURSIVE SizeAtBest(_, _, _, _)
\* the size loop of get_market_data: walk the heap list from position i,
\* adding the PENDING orders priced at best, and break at the first entry
\* whose price differs
SizeAtBest(heap, o, best, i) ==
    IF i > Len(heap) THEN 0
    ELSE IF o[heap[i][3]].status = "pending" /\ o[heap[i][3]].price = best
         THEN Remaining(o[heap[i][3]]) + SizeAtBest(heap, o, best, i + 1)
         ELSE IF o[heap[i][3]].price # best THEN 0
         ELSE SizeAtBest(heap, o, best, i + 1)

\* get_market_data after both best prices: bb, ba
MarketDataOf(bb, ba, o, t) ==
    IF ba.exc # "none" THEN [b |-> ba.b, val |-> None, exc |-> ba.exc]
    ELSE [b |-> ba.b, exc |-> "none",
          val |-> [symbol |-> ba.b.symbol, timestamp |-> t,
                   best_bid |-> bb.val, best_ask |-> ba.val,
                   bid_size |-> IF bb.val # None
                                THEN SizeAtBest(ba.b.bids, o, bb.val, 1) ELSE 0,
                   ask_size |-> IF ba.val # None
                                THEN SizeAtBest(ba.b.asks, o, ba.val, 1) ELSE 0,
                   last_price |-> ba.b.last_trade_price,
                   last_quantity |-> ba.b.last_trade_quantity]]

\* get_market_data after get_best_bid: bb
MarketDataBid(bb, o, t) ==
    IF bb.exc # "none" THEN [b |-> bb.b, val |-> None, exc |-> bb.exc]
    ELSE MarketDataOf(bb, GetBestAsk(bb.b, o), o, t)

\* OrderBook.get_market_data: [b, val, exc]; the snapshot's timestamp is the
\* clock, passed in
GetMarketData(b, o, t) == MarketDataBid(GetBestBid(b, o), o, t)

\* get_depth's default for levels
DefaultLevels == 5

RECURSIVE LevelQty(_, _, _, _)
\* ask_levels[price]: the remaining quantity of the PENDING orders of the heap
\* list priced at price, from position i on
LevelQty(heap, o, price, i) ==
    IF i > Len(heap) THEN 0
    ELSE (IF o[heap[i][3]].status = "pending" /\ o[heap[i][3]].price = price
          THEN Remaining(o[heap[i][3]]) ELSE 0)
         + LevelQty(heap, o, price, i + 1)

RECURSIVE SortedLevels(_, _, _, _)
\* sorted(ask_levels.items())[:levels]: the (price, quantity) pairs of the
\* given prices in ascending price order, at most levels of them
SortedLevels(heap, o, prices, levels) ==
    IF prices = {} \/ levels <= 0 THEN <<>>
    ELSE LET p == CHOOSE x \in prices : \A y \in prices : x <= y
         IN  <<<<p, LevelQty(heap, o, p, 1)>>>>
             \o SortedLevels(heap, o, prices \ {p}, levels - 1)

\* get_depth after both _clean_heap calls: b holds the cleaned heaps.
\* bid_levels is never filled, so "bids" is always the empty list.
DepthOf(b, o, levels) ==
    [b |-> b, exc |-> "none",
     val |-> [bids |-> <<>>,
              asks |-> SortedLevels(b.asks, o,
                          {o[b.asks[i][3]].price :
                              i \in {k \in 1..Len(b.asks) :
                                        o[b.asks[k][3]].status = "pending"}},
                          levels)]]

\* get_depth after _clean_heap(self.asks): ca
DepthAsksCleaned(b, o, levels, ca) ==
    IF ca.exc # "none"
    THEN [b |-> [b EXCEPT !.asks = ca.heap], val |-> None, exc |-> ca.exc]
    ELSE DepthOf([b EXCEPT !.asks = ca.heap], o, levels)

\* get_depth after _clean_heap(self.bids): cb
DepthBidsCleaned(b, o, levels, cb) ==
    IF cb.exc # "none"
    THEN [b |-> [b EXCEPT !.bids = cb.heap], val |-> None, exc |-> cb.exc]
    ELSE IF ~HasAttr(b, "asks")
    THEN [b |-> [b EXCEPT !.bids = cb.heap], val |-> None,
          exc |-> "AttributeError"]
    ELSE DepthAsksCleaned([b EXCEPT !.bids = cb.heap], o, levels,
                          CleanHeap(b.asks, o))

\* OrderBook.get_depth(levels): [b, val, exc]
GetDepth(b, o, levels) == DepthBidsCleaned(b, o, levels, CleanHeap(b.bids, o))

----------------------------------------------------------------------------
(* matching_engine.py: LatencyProfile, OrderEvent, MatchingEngine *)

\* the profiles callers register: base_latency and jitter in ticks,
\* packet_loss_rate in percent
Profiles ==
    {[base_latency |-> 1, jitter |-> 0, packet_loss_rate |-> 0]}

\* LatencyProfile(): the defaults of the dataclass, in the same units
DefaultProfile == [base_latency |-> 1, jitter |-> 0, packet_loss_rate |-> 0]

\* the profiles get_latency is looked at for: base_latency >= 0, jitter >= 0
\* (also larger than base_latency), packet_loss_rate 0, 50% or 100%
AnyProfiles ==
    [base_latency : 0..MaxLatency, jitter : 0..MaxLatency,
     packet_loss_rate : {0, 50, 100}]

\* LatencyProfile.get_latency: the values it can return.  random.random() is
\* in [0, 1), so a rate of 0 never takes the retransmission branch and a rate
\* of 100% always does.
GetLatency(p) ==
    (IF p.packet_loss_rate > 0 THEN {p.base_latency * 10} ELSE {})
    \cup (IF p.packet_loss_rate < 100
          THEN {p.base_latency + u : u \in (0 - p.jitter)..p.jitter}
          ELSE {})

\* MatchingEngine.__init__: the stats dict
InitStats ==
    [total_trades |-> 0, total_volume |-> 0, orders_processed |-> 0,
     orders_cancelled |-> 0, agent_pnl |-> <<>>, agent_positions |-> <<>>,
     latency_violations |-> 0]

\* MatchingEngine._update_trade_stats: [st, exc].  agent_pnl is a
\* defaultdict(float): reading agent_pnl[buyer] inserts 0.0 for a new buyer
\* and yields a float, and subscripting the float with the symbol raises
\* TypeError, before the seller's entry and the positions are touched.
UpdateTradeStats(st, trade) ==
    LET st1 == [st EXCEPT !.total_trades = @ + 1,
                          !.total_volume = @ + trade.quantity]
        pnl == IF trade.buyer_agent_id \in DOMAIN st1.agent_pnl
               THEN st1.agent_pnl
               ELSE SetItem(st1.agent_pnl, trade.buyer_agent_id, 0)
    IN  [st |-> [st1 EXCEPT !.agent_pnl = pnl], exc |-> "TypeError"]

RECURSIVE TradeStatsLoop(_, _, _)
\* process_events: "for trade in book_trades: self._update_trade_stats(trade)"
\* and the trade callbacks, from trade i on: [st, exc, n], the first n trades
\* having been handed to the trade callbacks
TradeStatsLoop(st, book_trades, i) ==
    IF i > Len(book_trades)
    THEN [st |-> st, exc |-> "none", n |-> Len(book_trades)]
    ELSE LET u == UpdateTradeStats(st, book_trades[i])
         IN  IF u.exc # "none" THEN [st |-> u.st, exc |-> u.exc, n |-> i - 1]
             ELSE TradeStatsLoop(u.st, book_trades, i + 1)

RECURSIVE ProcessLoop(_, _, _, _, _, _, _)

\* what process_events has reached: the queue, the books, the order table,
\* the stats, the local trade list, the list pc of the new_order events popped
\* and not dropped for a latency-budget violation, the exception raised;
\* notified is the list of the trades handed to the trade callbacks, which is
\* the local trade list unless the loop over an order's trades was left early
Drain(q, bk, o, st, tr, pc, e) ==
    [q |-> q, bk |-> bk, o |-> o, st |-> st, tr |-> tr, pc |-> pc, exc |-> e,
     notified |-> tr]

\* the loop over an order's trades was left after n of them
DrainNotified(d, book_trades, n) ==
    [d EXCEPT !.notified = @ \o SubSeq(book_trades, 1, n)]

\* the loop body after "update stats" and the callbacks of one order: u
ProcessCounted(q, bk, o, tr, pc, t, book_trades, u) ==
    IF u.exc # "none"
    THEN DrainNotified(Drain(q, bk, o, u.st, tr, pc, u.exc), book_trades, u.n)
    ELSE ProcessLoop(q, bk, o, u.st, tr \o book_trades, pc, t)

\* the loop body after add_order: a
ProcessAdded(q, bk, st, tr, pc, t, symbol, a) ==
    IF a.exc # "none"
    THEN Drain(q, [bk EXCEPT ![symbol] = a.b], a.o, st, tr, pc, a.exc)
    ELSE ProcessCounted(q, [bk EXCEPT ![symbol] = a.b], a.o, tr, pc, t, a.tr,
             TradeStatsLoop([st EXCEPT !.orders_processed = @ + 1], a.tr, 1))

\* the loop body after the heappop: p
ProcessPopped(p, bk, o, st, tr, pc, t) ==
    LET event == p.item
        order == o[event.order]
        actual_delay == t - order.timestamp
    IN  IF event.event_type # "new_order"
        THEN ProcessLoop(p.heap, bk, o, st, tr, pc, t)
        ELSE IF HasAttr(order, "max_latency") /\ actual_delay > order.max_latency
        THEN \* self.stats["latency violation"] += 1
             IF "latency violation" \in DOMAIN st
             THEN ProcessLoop(p.heap, bk, o,
                              [st EXCEPT !["latency violation"] = @ + 1],
                              tr, pc, t)
             ELSE Drain(p.heap, bk, o, st, tr, pc, "KeyError")
        ELSE IF order.symbol \notin DOMAIN bk
        THEN ProcessLoop(p.heap, bk, o, st, tr, Append(pc, event.order), t)
        ELSE ProcessAdded(p.heap, bk, st, tr, Append(pc, event.order), t,
                          order.symbol,
                          AddOrder(bk[order.symbol], o, event.order))

\* the while loop of process_events popping the root whatever its timestamp
ProcessLoopNoDefer(q, bk, o, st, tr, pc, t) ==
    IF Len(q) = 0 THEN Drain(q, bk, o, st, tr, pc, "none")
    ELSE ProcessPopped(HeapPop("event", q), bk, o, st, tr, pc, t)

\* the while loop of process_events at current_time t
ProcessLoop(q, bk, o, st, tr, pc, t) ==
    IF Len(q) = 0 THEN Drain(q, bk, o, st, tr, pc, "none")
    ELSE IF q[1].timestamp > t THEN Drain(q, bk, o, st, tr, pc, "none")
    ELSE ProcessPopped(HeapPop("event", q), bk, o, st, tr, pc, t)

\* MatchingEngine.__init__: the attributes it assigns
EngineAttrs ==
    {"symbols", "order_books", "event_queue", "latency_profiles", "running",
     "current_time", "simulation_speed", "stats", "trade_callbacks",
     "market_data_callbacks", "lock", "logger"}

RECURSIVE CancelInBooks(_, _, _, _)

\* cancel_order's loop after one book's cancel_order: c
CancelTried(bk, id, i, c) ==
    IF c.val THEN [bk |-> [bk EXCEPT ![Symbols[i]] = c.b], o |-> c.o, val |-> TRUE]
    ELSE CancelInBooks(bk, c.o, id, i + 1)

\* MatchingEngine.cancel_order: "for symbol in self.symbols", from symbol i on
CancelInBooks(bk, o, id, i) ==
    IF i > Len(Symbols) THEN [bk |-> bk, o |-> o, val |-> FALSE]
    ELSE CancelTried(bk, id, i, CancelOrder(bk[Symbols[i]], o, id))

\* cancel_order after its loop over the books: c
EngineCancelled(st, c) ==
    [bk |-> c.bk, o |-> c.o,
     st |-> IF c.val THEN [st EXCEPT !.orders_cancelled = @ + 1] ELSE st,
     val |-> c.val, exc |-> "none"]

\* MatchingEngine.cancel_order(agent_id, order_id): [bk, o, st, val, exc].
\* Its first line reads self.latnecy_profiles, an attribute the engine does
\* not have.
EngineCancel(bk, o, st, profiles, agent, id) ==
    IF "latnecy_profiles" \notin EngineAttrs
    THEN [bk |-> bk, o |-> o, st |-> st, val |-> None, exc |-> "AttributeError"]
    ELSE IF agent \in DOMAIN profiles
    THEN EngineCancelled(st, CancelInBooks(bk, o, id, 1))
    ELSE [bk |-> bk, o |-> o, st |-> st, val |-> FALSE, exc |-> "none"]

RECURSIVE ResetBooks(_, _)
\* reset: "for book in self.order_books.values()", from book i on:
\* orders.clear(), bids.clear(), asks.clear(), trades.clear()
ResetBooks(bk, i) ==
    IF i > Len(Symbols) THEN [bk |-> bk, exc |-> "none"]
    ELSE LET s == Symbols[i]
             b1 == [bk[s] EXCEPT !.orders = {}, !.bids = <<>>]
         IN  IF ~HasAttr(b1, "asks")
             THEN [bk |-> [bk EXCEPT ![s] = b1], exc |-> "AttributeError"]
             ELSE ResetBooks([bk EXCEPT ![s] = [b1 EXCEPT !.asks = <<>>,
                                                          !.trades = <<>>]],
                             i + 1)

----------------------------------------------------------------------------
(* The state machine *)

\* the Order constructor arguments callers use
OrderPrices == {None} \cup (1..MaxPrice)

\* latency_delay values a caller passes to the constructor, in ticks
CallerLatencies == {0, 2}

\* quantities and prices of any sign passed to the Order constructor
AnyQuantities == {0, 1}
AnyPrices == {None, 0, 1}

\* the quantities and prices of the orders submitted to the engine
SubmitQuantities == {1}
SubmitPrices == {None, 1}

\* latency_delay values callers pass to the constructor
PresetLatencies == {0}

\* order.max_latency values callers set (None: the attribute is not set)
Budgets == {None}

\* the book the OrderBook interface is exercised on
BookSymbols == {Symbols[1]}

NextId == Cardinality(DOMAIN ord) + 1

Init ==
    /\ now = 0
    /\ ord = <<>>
    /\ books = [s \in SymbolSet |-> InitBook(s)]
    /\ event_queue = <<>>
    /\ latency_profiles = <<>>
    /\ stats = InitStats
    /\ trade_callbacks = <<>>
    /\ market_data_callbacks = <<>>
    /\ ret = Completed("__init__", <<>>)
    /\ popped = <<>>
    /\ callback_calls = <<>>
    /\ running = FALSE
    /\ lock = Unlocked
    /\ position = [t \in Threads |->
                     [at |-> IF t \in Workers THEN "unstarted" ELSE "idle",
                      current_time |-> None, order |-> None]]

\* time passes
Tick ==
    /\ now < MaxTime
    /\ now' = now + 1
    /\ UNCHANGED <<running, lock, position>>
    /\ UNCHANGED <<ord, books, event_queue, latency_profiles, stats, ret, popped>>
    /\ UNCHANGED <<trade_callbacks, market_data_callbacks, callback_calls>>

\* MatchingEngine.register_agent(agent_id, latency_profile)
RegisterAgent(agent, profile) ==
    /\ latency_profiles' = SetItem(latency_profiles, agent, profile)
    /\ ret' = Completed("register_agent", <<agent>>)
    /\ UNCHANGED <<running, lock, position>>
    /\ UNCHANGED <<now, ord, books, event_queue, stats, popped>>
    /\ UNCHANGED <<trade_callbacks, market_data_callbacks, callback_calls>>

\* MatchingEngine.add_trade_callbacks(callback); process_events calls the
\* callbacks with each trade, and they are taken to leave the engine alone
AddTradeCallbacks(callback) ==
    /\ Len(trade_callbacks) < MaxCallbacks
    /\ trade_callbacks' = Append(trade_callbacks, callback)
    /\ ret' = Completed("add_trade_callbacks", <<callback>>)
    /\ UNCHANGED <<running, lock, position>>
    /\ UNCHANGED <<now, ord, books, event_queue, latency_profiles, stats,
                   market_data_callbacks, popped, callback_calls>>

\* MatchingEngine.add_market_data_callback(callback)
AddMarketDataCallback(callback) ==
    /\ Len(market_data_callbacks) < MaxCallbacks
    /\ market_data_callbacks' = Append(market_data_callbacks, callback)
    /\ ret' = Completed("add_market_data_callback", <<callback>>)
    /\ UNCHANGED <<running, lock, position>>
    /\ UNCHANGED <<now, ord, books, event_queue, latency_profiles, stats,
                   trade_callbacks, popped, callback_calls>>

\* a submit_order that pushes the event on a copy of the queue taken before
\* another thread's push, and writes the copy back (a lost update)
SubmitOrderCallOnStaleQueue(order) ==
    \E latency \in IF order.agent_id \in DOMAIN latency_profiles
                   THEN GetLatency(latency_profiles[order.agent_id])
                   ELSE {order.latency_delay} :
        LET o1 == [order EXCEPT
                     !.latency_delay = latency,
                     !.effective_timestamp = order.timestamp + latency]
            event == [timestamp |-> o1.effective_timestamp,
                      order |-> o1.order_id, event_type |-> "new_order"]
        IN  /\ ord' = SetItem(ord, o1.order_id, o1)
            /\ event_queue' = HeapPush("event", <<>>, event).heap
            /\ ret' = IF HasAttr(o1, "latnecy_delay")
                      THEN Returned("submit_order", <<o1.order_id>>, o1.order_id)
                      ELSE Raised("submit_order", <<o1.order_id>>, "AttributeError")
            /\ UNCHANGED <<now, books, latency_profiles, stats, popped>>
            /\ UNCHANGED <<trade_callbacks, market_data_callbacks, callback_calls>>

\* MatchingEngine.submit_order(order), order being the given new Order.  The
\* event is pushed, and then the argument of logger.debug reads
\* order.latnecy_delay, an attribute no Order has: AttributeError.
SubmitOrderCall(order) ==
    \E latency \in IF order.agent_id \in DOMAIN latency_profiles
                   THEN GetLatency(latency_profiles[order.agent_id])
                   ELSE {order.latency_delay} :
        LET o1 == [order EXCEPT
                     !.latency_delay = latency,
                     !.effective_timestamp = order.timestamp + latency]
            event == [timestamp |-> o1.effective_timestamp,
                      order |-> o1.order_id, event_type |-> "new_order"]
        IN  /\ ord' = SetItem(ord, o1.order_id, o1)
            /\ event_queue' = HeapPush("event", event_queue, event).heap
            /\ ret' = IF HasAttr(o1, "latnecy_delay")
                      THEN Returned("submit_order", <<o1.order_id>>, o1.order_id)
                      ELSE Raised("submit_order", <<o1.order_id>>, "AttributeError")
            /\ UNCHANGED <<now, books, latency_profiles, stats, popped>>
            /\ UNCHANGED <<trade_callbacks, market_data_callbacks, callback_calls>>

\* a caller builds an Order (optionally sets order.max_latency) and submits
\* it, the symbol, side, type and budget being drawn from the given sets; at
\* most max orders are built
SubmitOrderUpTo(max, symbols, sides, types, budgets) ==
    /\ NextId <= max
    /\ UNCHANGED <<running, lock, position>>
    /\ \E agent \in Agents, symbol \in symbols, side \in sides,
          order_type \in types, quantity \in SubmitQuantities,
          price \in SubmitPrices, latency \in PresetLatencies,
          budget \in budgets :
        /\ ~OrderRaises(order_type, quantity, price)
        /\ order_type = "market" => price = None
        /\ LET order == NewOrder(NextId, agent, symbol, side, order_type,
                                 quantity, price, latency, now)
           IN  SubmitOrderCall(IF budget = None THEN order
                               ELSE SetAttr(order, "max_latency", budget))

\* a caller presets latency_delay in the constructor and submits the order
\* (a SELL MARKET order of quantity 1 for the first symbol)
SubmitPreset ==
    /\ NextId <= MaxOrders
    /\ UNCHANGED <<running, lock, position>>
    /\ \E agent \in Agents, latency \in CallerLatencies :
          SubmitOrderCall(NewOrder(NextId, agent, Symbols[1], "sell", "market",
                                   1, None, latency, now))

\* a caller passes any quantity and price to the Order constructor and, when
\* it does not raise, submits the order
ConstructAndSubmit ==
    /\ NextId <= MaxOrders
    /\ UNCHANGED <<running, lock, position>>
    /\ \E agent \in Agents, order_type \in OrderTypes,
          quantity \in AnyQuantities, price \in AnyPrices :
        IF OrderRaises(order_type, quantity, price)
        THEN /\ ret' = Raised("Order", <<order_type, quantity, price>>,
                              "ValueError")
             /\ UNCHANGED <<now, ord, books, event_queue, latency_profiles,
                            stats, trade_callbacks, market_data_callbacks,
                            popped, callback_calls>>
        ELSE SubmitOrderCall(NewOrder(NextId, agent, Symbols[1], "sell",
                                      order_type, quantity, price, 0, now))

SubmitOrderOf(symbols, sides, types, budgets) ==
    SubmitOrderUpTo(MaxOrders, symbols, sides, types, budgets)

SubmitOrder == SubmitOrderOf(OrderSymbols, Sides, OrderTypes, Budgets)

\* a call of a callback of one of the two lists with an argument
Call(list, callback, arg) == [list |-> list, callback |-> callback, arg |-> arg]

\* "for callback in callbacks: callback(arg)"
CallEach(list, callbacks, arg) ==
    [i \in 1..Len(callbacks) |-> Call(list, callbacks[i], arg)]

RECURSIVE TradeCalls(_, _)
\* process_events: "for callback in self.trade_callbacks: callback(trade)" for
\* each of the trades
TradeCalls(trades, callbacks) ==
    IF Len(trades) = 0 THEN <<>>
    ELSE CallEach("trade_callbacks", callbacks, trades[1])
             \o TradeCalls(Tail(trades), callbacks)

\* process_events returning or raising: r
ProcessEventsDone(r) ==
    /\ event_queue' = r.q
    /\ books' = r.bk
    /\ ord' = r.o
    /\ stats' = r.st
    /\ popped' = r.pc
    /\ callback_calls' = callback_calls \o TradeCalls(r.notified, trade_callbacks)
    /\ ret' = IF r.exc = "none"
              THEN Returned("process_events", <<now>>, r.tr)
              ELSE Raised("process_events", <<now>>, r.exc)
    /\ UNCHANGED <<now, latency_profiles>>
    /\ UNCHANGED <<trade_callbacks, market_data_callbacks>>

\* MatchingEngine.process_events()
ProcessEvents ==
    /\ ProcessEventsDone(ProcessLoop(event_queue, books, ord, stats, <<>>,
                                     popped, now))
    /\ UNCHANGED <<running, lock, position>>

\* a reset that also forgets the registered latency profiles
ResetDoneForgetProfiles(r) ==
    /\ event_queue' = <<>>
    /\ books' = r.bk
    /\ stats' = IF r.exc = "none" THEN InitStats ELSE stats
    /\ popped' = IF r.exc = "none" THEN <<>> ELSE popped
    /\ ret' = IF r.exc = "none" THEN Completed("reset", <<>>)
              ELSE Raised("reset", <<>>, r.exc)
    /\ latency_profiles' = <<>>
    /\ UNCHANGED <<now, ord, trade_callbacks, market_data_callbacks,
                   callback_calls>>

\* reset after the loop over the books: r
ResetDone(r) ==
    /\ event_queue' = <<>>
    /\ books' = r.bk
    /\ stats' = IF r.exc = "none" THEN InitStats ELSE stats
    /\ popped' = IF r.exc = "none" THEN <<>> ELSE popped
    /\ ret' = IF r.exc = "none" THEN Completed("reset", <<>>)
              ELSE Raised("reset", <<>>, r.exc)
    /\ UNCHANGED <<now, ord, latency_profiles>>
    /\ UNCHANGED <<trade_callbacks, market_data_callbacks, callback_calls>>

\* MatchingEngine.reset()
Reset ==
    /\ ResetDone(ResetBooks(books, 1))
    /\ UNCHANGED <<running, lock, position>>

\* the engine's cancel_order returning or raising: c
EngineCancelDone(agent, id, c) ==
    /\ books' = c.bk
    /\ ord' = c.o
    /\ stats' = c.st
    /\ ret' = IF c.exc = "none"
              THEN Returned("engine_cancel_order", <<agent, id>>, c.val)
              ELSE Raised("engine_cancel_order", <<agent, id>>, c.exc)
    /\ UNCHANGED <<now, event_queue, latency_profiles, popped>>
    /\ UNCHANGED <<trade_callbacks, market_data_callbacks, callback_calls>>

\* MatchingEngine.cancel_order(agent_id, order_id)
EngineCancelOrder(agent, id) ==
    /\ EngineCancelDone(agent, id,
           EngineCancel(books, ord, stats, latency_profiles, agent, id))
    /\ UNCHANGED <<running, lock, position>>

\* add_order returning or raising: a
BookAdded(symbol, id, a) ==
    /\ ord' = a.o
    /\ books' = [books EXCEPT ![symbol] = a.b]
    /\ ret' = IF a.exc = "none"
              THEN Returned("add_order", <<symbol, id>>, a.tr)
              ELSE Raised("add_order", <<symbol, id>>, a.exc)
    /\ UNCHANGED <<now, event_queue, latency_profiles, stats, popped>>
    /\ UNCHANGED <<trade_callbacks, market_data_callbacks, callback_calls>>

\* OrderBook.add_order(order) called on the book of the order's symbol with a
\* new Order of one of the given agents
BookAddOrderBy(agents) ==
    /\ NextId <= MaxOrders
    /\ UNCHANGED <<running, lock, position>>
    /\ \E agent \in agents, symbol \in BookSymbols, side \in Sides,
          order_type \in OrderTypes, quantity \in 1..MaxQty,
          price \in OrderPrices :
        /\ ~OrderRaises(order_type, quantity, price)
        /\ order_type = "market" => price = None
        /\ BookAdded(symbol, NextId,
               AddOrder(books[symbol],
                        SetItem(ord, NextId,
                                NewOrder(NextId, agent, symbol, side, order_type,
                                         quantity, price, 0, now)),
                        NextId))

BookAddOrder == BookAddOrderBy(Agents)

\* OrderBook.add_order(order) called again with an Order object that was
\* passed to add_order before (the book of its symbol)
BookAddOrderAgain(id) ==
    /\ id \in DOMAIN ord
    /\ ord[id].symbol \in SymbolSet
    /\ UNCHANGED <<running, lock, position>>
    /\ BookAdded(ord[id].symbol, id, AddOrder(books[ord[id].symbol], ord, id))

\* OrderBook.cancel_order(order_id) on a symbol's book
BookCancelOrder(symbol, id) ==
    LET c == CancelOrder(books[symbol], ord, id)
    IN  /\ books' = [books EXCEPT ![symbol] = c.b]
        /\ ord' = c.o
        /\ ret' = Returned("cancel_order", <<symbol, id>>, c.val)
        /\ UNCHANGED <<running, lock, position>>
        /\ UNCHANGED <<now, event_queue, latency_profiles, stats, popped>>
        /\ UNCHANGED <<trade_callbacks, market_data_callbacks, callback_calls>>

\* a read returning or raising: r
BookReadDone(symbol, op, r) ==
    /\ books' = [books EXCEPT ![symbol] = r.b]
    /\ ret' = IF r.exc = "none" THEN Returned(op, <<symbol>>, r.val)
              ELSE Raised(op, <<symbol>>, r.exc)
    /\ UNCHANGED <<now, ord, event_queue, latency_profiles, stats, popped>>
    /\ UNCHANGED <<trade_callbacks, market_data_callbacks, callback_calls>>

\* a read on a symbol's book: get_best_bid, get_best_ask, get_market_data or
\* get_depth
\* (each cleans the heaps it looks at)
BookRead(symbol, op) ==
    /\ UNCHANGED <<running, lock, position>>
    /\ \/ /\ op = "get_best_bid"
          /\ BookReadDone(symbol, op, GetBestBid(books[symbol], ord))
       \/ /\ op = "get_best_ask"
          /\ BookReadDone(symbol, op, GetBestAsk(books[symbol], ord))
       \/ /\ op = "get_market_data"
          /\ BookReadDone(symbol, op, GetMarketData(books[symbol], ord, now))
       \/ /\ op = "get_depth"
          /\ BookReadDone(symbol, op, GetDepth(books[symbol], ord, DefaultLevels))

ReadOps == {"get_best_bid", "get_best_ask", "get_market_data", "get_depth"}

\* the engine driven through its own interface
Next ==
    \/ Tick
    \/ \E agent \in Agents, profile \in Profiles : RegisterAgent(agent, profile)
    \/ SubmitOrder
    \/ ProcessEvents
    \/ Reset

Spec == Init /\ [][Next]_vars

\* the orders submitted where the event queue is looked at: sell orders of
\* one symbol (a SELL MARKET is routed without an exception, a SELL LIMIT is
\* indexed and then raises)
QueueSymbols == {Symbols[1]}
QueueSides == {"sell"}

\* the engine's event queue under registrations, submissions and drains
NextQueue ==
    \/ Tick
    \/ \E agent \in Agents, profile \in Profiles : RegisterAgent(agent, profile)
    \/ SubmitOrderOf(QueueSymbols, QueueSides, OrderTypes, Budgets)
    \/ ProcessEvents

SpecQueue == Init /\ [][NextQueue]_vars

\* the loop condition of process_events holds: the head of the queue is due
Due ==
    /\ Len(event_queue) > 0
    /\ event_queue[1].timestamp <= now

\* a process_events call that enters its loop (it pops the head at least)
DueDrain == Due /\ ProcessEvents

\* submissions for a symbol with a book and for one without, drains, time
RouteSymbols == {Symbols[1], "ZZZ"}

NextRoute ==
    \/ Tick
    \/ SubmitOrderOf(RouteSymbols, QueueSides, OrderTypes, Budgets)
    \/ ProcessEvents

SpecRoute == Init /\ [][NextRoute]_vars

\* the same with the clock advancing (WF on Tick) and the simulation loop
\* calling process_events again and again: weak fairness of DueDrain, whose
\* enabling condition is Due, a due head being popped by every call
SpecRouteFair ==
    /\ SpecRoute
    /\ WF_now(Tick)
    /\ (<>[]Due => []<><<DueDrain>>_event_queue)

\* order.max_latency as the latency-budget test sets it (0: any delay of a
\* tick exceeds it), or not set
LatencyBudgets == {None, 0}

\* the engine under submissions of orders with and without a latency budget
NextBudget ==
    \/ Tick
    \/ SubmitOrderOf(QueueSymbols, QueueSides, OrderTypes, LatencyBudgets)
    \/ ProcessEvents

SpecBudget == Init /\ [][NextBudget]_vars

\* the engine with agents registered, callbacks added, orders submitted and
\* drained, and resets
NextReset ==
    \/ \E agent \in Agents, profile \in Profiles : RegisterAgent(agent, profile)
    \/ \E callback \in Callbacks : AddTradeCallbacks(callback)
    \/ \E callback \in Callbacks : AddMarketDataCallback(callback)
    \/ SubmitOrderOf(QueueSymbols, QueueSides, OrderTypes, Budgets)
    \/ ProcessEvents
    \/ Reset

SpecReset == Init /\ [][NextReset]_vars

\* the engine fed with orders built from arbitrary constructor arguments
\* the engine with callbacks registered, under submissions of both sides and
\* drains
NextCallbacks ==
    \/ \E callback \in Callbacks : AddTradeCallbacks(callback)
    \/ \E callback \in Callbacks : AddMarketDataCallback(callback)
    \/ SubmitOrderOf(QueueSymbols, Sides, OrderTypes, Budgets)
    \/ ProcessEvents

SpecCallbacks == Init /\ [][NextCallbacks]_vars

NextValidate ==
    \/ Tick
    \/ ConstructAndSubmit
    \/ ProcessEvents

SpecValidate == Init /\ [][NextValidate]_vars

\* the engine under registrations and submissions of orders with a preset
\* latency, by registered and unregistered agents
NextLatency ==
    \/ Tick
    \/ \E agent \in Agents, profile \in Profiles : RegisterAgent(agent, profile)
    \/ SubmitPreset
    \/ ProcessEvents

SpecLatency == Init /\ [][NextLatency]_vars

\* the engine's event queue under submissions at one instant, and drains
NextTie ==
    \/ SubmitOrderUpTo(MaxEvents, QueueSymbols, QueueSides, OrderTypes, Budgets)
    \/ ProcessEvents

SpecTie == Init /\ [][NextTie]_vars

\* the engine under submissions, drains and cancels
NextCancel ==
    \/ \E agent \in Agents, profile \in Profiles : RegisterAgent(agent, profile)
    \/ SubmitOrder
    \/ ProcessEvents
    \/ \E agent \in Agents, id \in DOMAIN ord : EngineCancelOrder(agent, id)

SpecCancel == Init /\ [][NextCancel]_vars

\* one order book driven through the OrderBook interface
NextBook ==
    \/ Tick
    \/ BookAddOrder
    \/ \E symbol \in BookSymbols, id \in DOMAIN ord : BookCancelOrder(symbol, id)
    \/ \E symbol \in BookSymbols, op \in ReadOps : BookRead(symbol, op)

SpecBook == Init /\ [][NextBook]_vars

\* one order book's index under add_order and cancel_order, the clock standing
NextIndex ==
    \/ BookAddOrder
    \/ \E symbol \in BookSymbols, id \in DOMAIN ord : BookCancelOrder(symbol, id)

SpecIndex == Init /\ [][NextIndex]_vars

\* one order book under add_order, cancel_order and add_order of an order
\* added before, the clock standing
NextAgain ==
    \/ BookAddOrder
    \/ \E symbol \in BookSymbols, id \in DOMAIN ord : BookCancelOrder(symbol, id)
    \/ \E id \in DOMAIN ord : BookAddOrderAgain(id)

SpecAgain == Init /\ [][NextAgain]_vars

\* LatencyProfile(...).get_latency() returning one of its values
GetLatencyCall(profile) ==
    /\ \E latency \in GetLatency(profile) :
          ret' = Returned("get_latency", <<profile>>, latency)
    /\ UNCHANGED <<now, ord, books, event_queue, latency_profiles, stats,
                   trade_callbacks, market_data_callbacks, popped,
                   callback_calls, running, lock, position>>

\* get_latency applied to profiles
NextProfile == \E profile \in AnyProfiles : GetLatencyCall(profile)

SpecProfile == Init /\ [][NextProfile]_vars

\* OrderBook._create_trade(buy_order, sell_order, quantity, price) on the book
\* of the first symbol, the two orders being LIMIT orders of that symbol built
\* at any time with any preset latency
CreateTradeCall ==
    \E buy_time \in 0..MaxTime, sell_time \in 0..MaxTime,
       buy_latency \in CallerLatencies, sell_latency \in CallerLatencies,
       quantity \in 1..MaxQty, price \in 1..MaxPrice :
        LET buy_order == NewOrder(1, "agent1", Symbols[1], "buy", "limit",
                                  MaxQty, price, buy_latency, buy_time)
            sell_order == NewOrder(2, "agent2", Symbols[1], "sell", "limit",
                                   MaxQty, price, sell_latency, sell_time)
        IN  /\ ret' = Returned("_create_trade", <<buy_order, sell_order>>,
                               CreateTrade(books[Symbols[1]].symbol, buy_order,
                                           sell_order, quantity, price))
            /\ UNCHANGED <<now, ord, books, event_queue, latency_profiles,
                           stats, trade_callbacks, market_data_callbacks,
                           popped, callback_calls, running, lock, position>>

\* _create_trade applied to pairs of orders
NextTrade == CreateTradeCall

SpecTrade == Init /\ [][NextTrade]_vars

\* the agent whose orders SpecReads adds (a book never looks at agent_id)
BookAgents == {"agent1"}

\* one order book under add_order, cancel_order and the reads, the clock
\* standing
NextReads ==
    \/ BookAddOrderBy(BookAgents)
    \/ \E symbol \in BookSymbols, id \in DOMAIN ord : BookCancelOrder(symbol, id)
    \/ \E symbol \in BookSymbols, op \in ReadOps : BookRead(symbol, op)

SpecReads == Init /\ [][NextReads]_vars

\* the Trade objects handed to _update_trade_stats
Trades ==
    [symbol : SymbolSet, quantity : 1..MaxQty, price : 1..MaxPrice,
     timestamp : {0}, buy_order_id : {1}, sell_order_id : {2},
     buyer_agent_id : Agents, seller_agent_id : Agents]

\* _update_trade_stats returning or raising: u
TradeStatsUpdated(trade, u) ==
    /\ stats' = u.st
    /\ ret' = IF u.exc = "none"
              THEN Completed("_update_trade_stats", <<trade>>)
              ELSE Raised("_update_trade_stats", <<trade>>, u.exc)
    /\ UNCHANGED <<now, ord, books, event_queue, latency_profiles, popped>>
    /\ UNCHANGED <<trade_callbacks, market_data_callbacks, callback_calls>>

\* MatchingEngine._update_trade_stats(trade), as process_events calls it for
\* each trade a book returns
UpdateTradeStatsCall(trade) ==
    /\ stats.total_trades < MaxCalls
    /\ UNCHANGED <<running, lock, position>>
    /\ TradeStatsUpdated(trade, UpdateTradeStats(stats, trade))

\* the engine's trade accounting applied to trades
NextStats ==
    \/ Tick
    \/ \E trade \in Trades : UpdateTradeStatsCall(trade)

SpecStats == Init /\ [][NextStats]_vars

\* where a thread is: the code it is in, the current_time process_events read,
\* the Order it is about to submit
At(at, current_time, order) ==
    [at |-> at, current_time |-> current_time, order |-> order]
Idle == At("idle", None, None)

\* MatchingEngine.start_simulation(): sets running and starts a new thread,
\* w, at the head of simulation_loop, whatever running was and whatever
\* threads it started before
StartSimulationAs(w) ==
    /\ position[w].at \in {"unstarted", "returned", "raised"}
    /\ running' = TRUE
    /\ position' = [position EXCEPT ![w] = At("while", None, None)]
    /\ ret' = Completed("start_simulation", <<>>)
    /\ UNCHANGED <<now, ord, books, event_queue, latency_profiles, stats,
                   trade_callbacks, market_data_callbacks, popped,
                   callback_calls, lock>>

\* MatchingEngine.stop_simulation(): clears running and returns
StopSimulation ==
    /\ running
    /\ running' = FALSE
    /\ ret' = Completed("stop_simulation", <<>>)
    /\ UNCHANGED <<now, ord, books, event_queue, latency_profiles, stats,
                   trade_callbacks, market_data_callbacks, popped,
                   callback_calls, lock, position>>

\* simulation_loop: "while self.running:", in thread w
WorkerWhileIn(w) ==
    /\ position[w].at = "while"
    /\ position' = [position EXCEPT ![w] =
                       IF running THEN At("loop_body", None, None)
                       ELSE At("returned", None, None)]
    /\ UNCHANGED <<now, ord, books, event_queue, latency_profiles, stats,
                   trade_callbacks, market_data_callbacks, ret, popped,
                   callback_calls, running, lock>>

\* a thread calls process_events: "current_time = time.time()", then it is at
\* "with self.lock"
BeginProcessEvents(t) ==
    /\ position[t].at = IF t \in Workers THEN "loop_body" ELSE "idle"
    /\ position' = [position EXCEPT ![t] = At("process_events", now, None)]
    /\ UNCHANGED <<now, ord, books, event_queue, latency_profiles, stats,
                   trade_callbacks, market_data_callbacks, ret, popped,
                   callback_calls, running, lock>>

\* a caller's thread builds an Order, latency_delay being preset in the
\* constructor, and calls submit_order with it: it is at "with self.lock"
BeginSubmitOrder(t, agents, symbols, sides, types) ==
    /\ position[t].at = "idle"
    /\ NextId <= MaxOrders
    /\ \E agent \in agents, symbol \in symbols, side \in sides,
          order_type \in types, quantity \in SubmitQuantities,
          price \in SubmitPrices, latency \in CallerLatencies :
        /\ ~OrderRaises(order_type, quantity, price)
        /\ order_type = "market" => price = None
        /\ ord' = SetItem(ord, NextId,
                          NewOrder(NextId, agent, symbol, side, order_type,
                                   quantity, price, latency, now))
    /\ position' = [position EXCEPT ![t] = At("submit_order", None, NextId)]
    /\ UNCHANGED <<now, books, event_queue, latency_profiles, stats,
                   trade_callbacks, market_data_callbacks, ret, popped,
                   callback_calls, running, lock>>

\* "with self.lock:" of submit_order and process_events: the thread gets the
\* lock when no thread holds it
Acquire(t) ==
    /\ position[t].at \in {"submit_order", "process_events"}
    /\ lock = Unlocked
    /\ lock' = t
    /\ UNCHANGED <<now, ord, books, event_queue, latency_profiles, stats,
                   trade_callbacks, market_data_callbacks, ret, popped,
                   callback_calls, running, position>>

\* the body of submit_order run by the thread holding the lock; the lock is
\* released when the with block is left, by return or by exception
RunSubmitOrder(t) ==
    /\ position[t].at = "submit_order"
    /\ lock = t
    /\ SubmitOrderCall(ord[position[t].order])
    /\ lock' = Unlocked
    /\ position' = [position EXCEPT ![t] = Idle]
    /\ UNCHANGED running

\* simulation_loop, "publish market updates": the exception it raises.
\* self.get_market_data(symbol) reads self.order_book, an attribute the engine
\* does not have, so the loop over market_data_callbacks is not reached.
Publish(trades) ==
    IF Len(trades) > 0 /\ "order_book" \notin EngineAttrs
    THEN "AttributeError" ELSE "none"

\* where the thread is after its process_events call: r.  An exception in
\* simulation_loop ends the worker.
AfterProcessEvents(t, r) ==
    IF t \notin Workers THEN Idle
    ELSE IF r.exc # "none" \/ Publish(r.tr) # "none"
    THEN At("raised", None, None)
    ELSE At("while", None, None)

\* the thread's process_events call returning or raising: r
ProcessEventsRun(t, r) ==
    /\ ProcessEventsDone(r)
    /\ lock' = Unlocked
    /\ position' = [position EXCEPT ![t] = AfterProcessEvents(t, r)]
    /\ UNCHANGED running

\* the with block of process_events run by the thread holding the lock, and
\* for the worker the rest of the loop body
RunProcessEvents(t) ==
    /\ position[t].at = "process_events"
    /\ lock = t
    /\ ProcessEventsRun(t, ProcessLoop(event_queue, books, ord, stats, <<>>,
                                       popped, position[t].current_time))

\* a caller's thread calls get_order_book_depth(symbol): no lock is taken
BeginGetOrderBookDepth(t) ==
    /\ position[t].at = "idle"
    /\ position' = [position EXCEPT ![t] =
                       At("get_order_book_depth", None, None)]
    /\ UNCHANGED <<now, ord, books, event_queue, latency_profiles, stats,
                   trade_callbacks, market_data_callbacks, ret, popped,
                   callback_calls, running, lock>>

\* get_order_book_depth(symbol) for a symbol of the engine:
\* self.order_books[symbol].get_depth(levels)
RunGetOrderBookDepth(t, symbol) ==
    /\ position[t].at = "get_order_book_depth"
    /\ BookReadDone(symbol, "get_depth",
                    GetDepth(books[symbol], ord, DefaultLevels))
    /\ position' = [position EXCEPT ![t] = Idle]
    /\ UNCHANGED <<running, lock>>

\* the engine used by the callers' threads while the simulation worker runs
NextThreads ==
    \/ StartSimulationAs(Worker)
    \/ StopSimulation
    \/ WorkerWhileIn(Worker)
    \/ \E t \in Threads : BeginProcessEvents(t)
    \/ \E t \in Users :
          BeginSubmitOrder(t, BookAgents, QueueSymbols, QueueSides, OrderTypes)
    \/ \E t \in Threads : Acquire(t)
    \/ \E t \in Users : RunSubmitOrder(t)
    \/ \E t \in Threads : RunProcessEvents(t)
    \/ \E t \in Users : BeginGetOrderBookDepth(t)
    \/ \E t \in Users, symbol \in QueueSymbols : RunGetOrderBookDepth(t, symbol)

SpecThreads == Init /\ [][NextThreads]_vars

\* start_simulation and stop_simulation called in any order, and the threads
\* started running simulation_loop
NextWorkers ==
    \/ \E w \in Workers : StartSimulationAs(w)
    \/ StopSimulation
    \/ \E w \in Workers : WorkerWhileIn(w)
    \/ \E w \in Workers : BeginProcessEvents(w)
    \/ \E w \in Workers : Acquire(w)
    \/ \E w \in Workers : RunProcessEvents(w)

SpecWorkers == Init /\ [][NextWorkers]_vars

----------------------------------------------------------------------------
(* Vocabulary of the properties *)

Opposite(side) == IF side = "buy" THEN "sell" ELSE "buy"

\* the orders of a side resting in a symbol's book: in the orders index, not
\* cancelled, remaining > 0
Resting(bk, o, symbol, side) ==
    {i \in bk[symbol].orders :
        /\ o[i].side = side
        /\ o[i].status # "cancelled"
        /\ Remaining(o[i]) > 0}

\* incoming order x can trade with resting order r
Crosses(x, r) ==
    \/ x.order_type = "market"
    \/ (x.side = "buy" /\ r.price <= x.price)
    \/ (x.side = "sell" /\ r.price >= x.price)

\* the resting orders incoming order x can trade with
Counterparts(bk, o, symbol, x) ==
    {i \in Resting(bk, o, symbol, Opposite(x.side)) : Crosses(x, o[i])}

\* the step is a call of add_order on a book with a new Order; the symbol and
\* the id of the incoming order
IsAddOrder == ret'.op = "add_order" /\ DOMAIN ord' # DOMAIN ord
AddedSymbol == ret'.args[1]
AddedId == ret'.args[2]

\* the step is such a call, and the incoming order can trade with a resting one
IsCrossingAdd ==
    /\ IsAddOrder
    /\ Counterparts(books, ord, AddedSymbol, ord'[AddedId]) # {}

\* the resting order of a trade made for incoming order id
RestingOf(trade, id) ==
    IF trade.buy_order_id = id THEN trade.sell_order_id ELSE trade.buy_order_id

RECURSIVE QtyBefore(_, _, _)
\* the quantity order i traded in the trades before the k-th of tr
QtyBefore(tr, k, i) ==
    IF k <= 1 THEN 0
    ELSE QtyBefore(tr, k - 1, i)
         + (IF i \in {tr[k - 1].buy_order_id, tr[k - 1].sell_order_id}
            THEN tr[k - 1].quantity ELSE 0)

RECURSIVE SumQty(_, _)
\* the sum of the quantities of the first k trades of tr
SumQty(tr, k) == IF k = 0 THEN 0 ELSE SumQty(tr, k - 1) + tr[k].quantity

\* agent_positions[agent][symbol] and agent_pnl[agent], read as the
\* defaultdicts read (0 when absent)
PositionOf(st, agent, symbol) ==
    IF agent \in DOMAIN st.agent_positions
    THEN (IF symbol \in DOMAIN st.agent_positions[agent]
          THEN st.agent_positions[agent][symbol] ELSE 0)
    ELSE 0
PnlOf(st, agent) ==
    IF agent \in DOMAIN st.agent_pnl THEN st.agent_pnl[agent] ELSE 0

\* the step is a call of _update_trade_stats; the trade it was given
IsTradeUpdate ==
    /\ ret'.op = "_update_trade_stats"
    /\ stats'.total_trades = stats.total_trades + 1
UpdatedTrade == ret'.args[1]

----------------------------------------------------------------------------
(* Properties *)

C2_TradeAtRestingPrice ==
    [][IsCrossingAdd =>
        /\ ret'.exc = "none"
        /\ Len(ret'.val) > 0
        /\ \A k \in 1..Len(ret'.val) :
             /\ RestingOf(ret'.val[k], AddedId)
                  \in Counterparts(books, ord, AddedSymbol, ord'[AddedId])
             /\ ret'.val[k].price
                  = ord[RestingOf(ret'.val[k], AddedId)].price]_vars

\* C3, no crossed book: no symbol's book holds a resting LIMIT BUY and a
\* resting LIMIT SELL with the buy price >= the sell price.
C3_NoCrossedBook ==
    \A symbol \in SymbolSet :
        \A i \in Resting(books, ord, symbol, "buy"),
           j \in Resting(books, ord, symbol, "sell") :
            (ord[i].order_type = "limit" /\ ord[j].order_type = "limit")
            => ord[i].price < ord[j].price

\* a LIMIT SELL rests in the book and add_order was just called with a LIMIT
\* BUY priced at or above it
C3_Witness ==
    /\ ret.op = "add_order"
    /\ ord[ret.args[2]].side = "buy"
    /\ ord[ret.args[2]].order_type = "limit"
    /\ \E j \in Resting(books, ord, ret.args[1], "sell") :
          /\ ord[j].order_type = "limit"
          /\ ord[j].price <= ord[ret.args[2]].price

\* C4, a partially filled resting order stays visible: once SELL LIMIT q1 at
\* p was added and then BUY LIMIT q2 < q1 at p, neither cancelled,
\* get_best_ask() returns p and get_market_data().ask_size is q1 - q2.
C4_PartialFillStaysVisible ==
    \A s \in DOMAIN ord, b \in DOMAIN ord :
        (/\ DOMAIN ord = {s, b}
         /\ s < b
         /\ ord[s].side = "sell" /\ ord[s].order_type = "limit"
         /\ ord[b].side = "buy" /\ ord[b].order_type = "limit"
         /\ ord[s].symbol = ord[b].symbol
         /\ ord[s].price = ord[b].price
         /\ ord[b].quantity < ord[s].quantity
         /\ ord[s].status # "cancelled" /\ ord[b].status # "cancelled")
        => /\ ret.op = "get_best_ask"
              => (ret.exc = "none" /\ ret.val = ord[s].price)
           /\ ret.op = "get_market_data"
              => (/\ ret.exc = "none"
                  /\ ret.val.best_ask = ord[s].price
                  /\ ret.val.ask_size = ord[s].quantity - ord[b].quantity)

\* C5, no overfill: an add_order whose incoming order can trade with a
\* resting order returns trades; each has quantity > 0, a BUY and a SELL order
\* of the trade's symbol, and a quantity no larger than what either order had
\* remaining just before it; and every order has 0 <= filled <= quantity.
C5_NoOverfill ==
    [][IsCrossingAdd =>
        /\ ret'.exc = "none"
        /\ Len(ret'.val) > 0
        /\ \A k \in 1..Len(ret'.val) :
             /\ ret'.val[k].quantity > 0
             /\ ord'[ret'.val[k].sell_order_id].side = "sell"
             /\ ord'[ret'.val[k].buy_order_id].side = "buy"
             /\ ord'[ret'.val[k].buy_order_id].symbol = ret'.val[k].symbol
             /\ ord'[ret'.val[k].sell_order_id].symbol = ret'.val[k].symbol
             /\ \A i \in {ret'.val[k].buy_order_id, ret'.val[k].sell_order_id} :
                   ret'.val[k].quantity
                     <= ord'[i].quantity
                        - (IF i = AddedId THEN 0 ELSE ord[i].filled_quantity)
                        - QtyBefore(ret'.val, k, i)
        /\ \A i \in DOMAIN ord' :
             0 <= ord'[i].filled_quantity
             /\ ord'[i].filled_quantity <= ord'[i].quantity]_vars

\* C6, price priority: an add_order whose incoming order can trade with a
\* resting order returns trades; whenever it trades against a resting order
\* at price p every strictly better-priced resting order of that side has
\* been filled completely, and the resting orders it did not trade with are
\* still resting.
C6_PricePriority ==
    [][IsCrossingAdd =>
        /\ ret'.exc = "none"
        /\ Len(ret'.val) > 0
        /\ \A j \in Resting(books, ord, AddedSymbol,
                            Opposite(ord'[AddedId].side)) :
             /\ \A k \in 1..Len(ret'.val) :
                  (IF ord[j].side = "sell"
                   THEN ord[j].price
                          < ord[RestingOf(ret'.val[k], AddedId)].price
                   ELSE ord[j].price
                          > ord[RestingOf(ret'.val[k], AddedId)].price)
                  => Remaining(ord'[j]) = 0
             /\ (\A k \in 1..Len(ret'.val) :
                    RestingOf(ret'.val[k], AddedId) # j)
                => j \in Resting(books', ord', AddedSymbol, ord[j].side)]_vars

\* C7, trade accounting: a process_events call that pops one new_order event
\* whose order can trade with an order resting in its symbol's book completes
\* with at least one trade, and adds the number of its trades to total_trades
\* and the sum of their quantities to total_volume.
C7_TradeAccounting ==
    [][(/\ ret'.op = "process_events"
        /\ Len(popped') = Len(popped) + 1
        /\ ord[event_queue[1].order].symbol \in SymbolSet
        /\ Counterparts(books, ord, ord[event_queue[1].order].symbol,
                        ord[event_queue[1].order]) # {})
       => /\ ret'.exc = "none"
          /\ Len(ret'.val) > 0
          /\ stats'.total_trades = stats.total_trades + Len(ret'.val)
          /\ stats'.total_volume
               = stats.total_volume + SumQty(ret'.val, Len(ret'.val))]_vars

\* C8, position accounting: each trade the engine accounts adds its quantity
\* to agent_positions[buyer][symbol] and subtracts it from
\* agent_positions[seller][symbol], and changes no other position.
C8_PositionAccounting ==
    [][IsTradeUpdate =>
        \A agent \in Agents, symbol \in SymbolSet :
            PositionOf(stats', agent, symbol)
              = PositionOf(stats, agent, symbol)
                + (IF agent = UpdatedTrade.buyer_agent_id
                      /\ symbol = UpdatedTrade.symbol
                   THEN UpdatedTrade.quantity ELSE 0)
                - (IF agent = UpdatedTrade.seller_agent_id
                      /\ symbol = UpdatedTrade.symbol
                   THEN UpdatedTrade.quantity ELSE 0)]_vars

\* C9, signed volume proxy: each trade the engine accounts adds
\* quantity x price to agent_pnl of the seller and subtracts it from agent_pnl
\* of the buyer, and the update completes without error.
C9_SignedVolumeProxy ==
    [][IsTradeUpdate =>
        /\ ret'.exc = "none"
        /\ \A agent \in Agents :
              PnlOf(stats', agent)
                = PnlOf(stats, agent)
                  + (IF agent = UpdatedTrade.seller_agent_id
                     THEN UpdatedTrade.quantity * UpdatedTrade.price ELSE 0)
                  - (IF agent = UpdatedTrade.buyer_agent_id
                     THEN UpdatedTrade.quantity * UpdatedTrade.price
                     ELSE 0)]_vars

\* C10, orders processed: orders_processed is the number of new_order events
\* process_events popped since the last reset and did not drop for a
\* latency-budget violation.
C10_OrdersProcessedCount == stats.orders_processed = Len(popped)

\* some order of the side resting in the symbol's book is priced at price
RestsAt(bk, o, symbol, side, price) ==
    \E i \in Resting(bk, o, symbol, side) : o[i].price = price

\* the step is a call of cancel_order on a book (the clock stands during a
\* call); the symbol and the order id it was given
IsBookCancel == ret'.op = "cancel_order" /\ now' = now /\ ret'.exc = "none"
CancelledSymbol == ret'.args[1]
CancelledId == ret'.args[2]

\* the step is a read of a book that returned
IsBookRead(op) == ret'.op = op /\ now' = now /\ ret'.exc = "none"

IsEngineCancel == ret'.op = "engine_cancel_order" /\ now' = now
EngineCancelledId == ret'.args[2]

\* the order rests in some symbol's book
RestsSomewhere(bk, o, id) ==
    \E symbol \in SymbolSet :
        id \in Resting(bk, o, symbol, "buy") \cup Resting(bk, o, symbol, "sell")

\* C12, engine cancel: cancel_order(agent_id, order_id) of an order resting in
\* some symbol's book returns true and adds exactly 1 to orders_cancelled,
\* whoever the agent is; for any other order it returns false and leaves
\* orders_cancelled and all books unchanged.
C12_EngineCancel ==
    [][IsEngineCancel =>
        IF RestsSomewhere(books, ord, EngineCancelledId)
        THEN /\ ret'.exc = "none"
             /\ ret'.val = TRUE
             /\ stats'.orders_cancelled = stats.orders_cancelled + 1
        ELSE /\ ret'.exc = "none"
             /\ ret'.val = FALSE
             /\ stats'.orders_cancelled = stats.orders_cancelled
             /\ books' = books]_vars

\* the step is a call of process_events (the clock stands during a call)
IsDrain == ret'.op = "process_events" /\ now' = now

\* the orders whose events are in the queue q
Queued(q) == {q[k].order : k \in 1..Len(q)}

\* the orders the step popped and did not drop
NewlyPopped == {popped'[k] : k \in (Len(popped) + 1)..Len(popped')}

\* C13, latency deferral: a process_events call pops and routes only orders
\* whose effective timestamp (creation timestamp + latency delay) is <= the
\* current time; the events with a later effective timestamp are still in the
\* queue after the call; an order it puts in a book, or that takes part in a
\* trade it returns, has its effective timestamp <= the current time.
C13_LatencyDeferral ==
    [][IsDrain =>
        /\ \A id \in NewlyPopped :
              ord[id].timestamp + ord[id].latency_delay <= now
        /\ \A id \in Queued(event_queue) \ Queued(event_queue') :
              ord[id].effective_timestamp <= now
        /\ \A k \in 1..Len(event_queue) :
              event_queue[k].timestamp > now
              => \E j \in 1..Len(event_queue') : event_queue'[j] = event_queue[k]
        /\ \A symbol \in SymbolSet :
              \A id \in books'[symbol].orders \ books[symbol].orders :
                 ord[id].effective_timestamp <= now
        /\ ret'.exc = "none"
           => \A k \in 1..Len(ret'.val) :
                 /\ ord[ret'.val[k].buy_order_id].effective_timestamp <= now
                 /\ ord[ret'.val[k].sell_order_id].effective_timestamp <= now]_vars

\* the last call was a process_events that popped a due order and left the
\* event of a later order in the queue
C13_Witness ==
    /\ ret.op = "process_events"
    /\ Len(popped) > 0
    /\ ord[popped[Len(popped)]].effective_timestamp = ret.args[1]
    /\ \E k \in 1..Len(event_queue) : event_queue[k].timestamp > now

\* C14, effective-timestamp ordering: a process_events call pops the orders
\* in nondecreasing effective-timestamp order, and an order that was queued
\* before the call and is still queued after it has no effective timestamp
\* earlier than an order the call popped; so of two queued orders the one
\* with the earlier effective timestamp is routed first, whichever was
\* submitted first.
C14_EffectiveTimestampOrder ==
    [][IsDrain =>
        /\ \A j \in (Len(popped) + 1)..Len(popped') :
              \A k \in (j + 1)..Len(popped') :
                 ord[popped'[j]].effective_timestamp
                   <= ord[popped'[k]].effective_timestamp
        /\ \A a \in Queued(event_queue) \cap Queued(event_queue') :
              \A b \in NewlyPopped :
                 ord[b].effective_timestamp <= ord[a].effective_timestamp]_vars

\* an order submitted later, with an earlier effective timestamp, was popped
\* before an order submitted earlier
C14_Witness ==
    \E j \in 1..Len(popped) :
        \E k \in (j + 1)..Len(popped) :
            /\ popped[j] > popped[k]
            /\ ord[popped[j]].effective_timestamp
                 < ord[popped[k]].effective_timestamp

\* C15, tie-break by submission order: orders with equal effective
\* timestamps are popped, and so routed to the books, in the order in which
\* submit_order was called (order ids count the submissions).
C15_SubmissionOrderTieBreak ==
    \A j \in 1..Len(popped) :
        \A k \in (j + 1)..Len(popped) :
            ord[popped[j]].effective_timestamp
              = ord[popped[k]].effective_timestamp
            => popped[j] < popped[k]

\* C16, liveness of queued orders: when time advances and process_events
\* keeps being called, every order whose event is in the queue (and whose
\* effective timestamp the clock reaches) is eventually popped and routed to
\* the book of its symbol (no order of the runs carries a latency budget).
C16_QueuedEventuallyRouted ==
    \A id \in 1..MaxOrders :
        (id \in Queued(event_queue) /\ ord[id].effective_timestamp <= MaxTime)
        ~> (\E k \in 1..Len(popped) :
               popped[k] = id /\ ord[id].symbol \in DOMAIN books)

\* the orders a process_events step takes out of the queue although
\* (now - order.timestamp) exceeds their max_latency
Violators ==
    {id \in Queued(event_queue) \ Queued(event_queue') :
        /\ HasAttr(ord[id], "max_latency")
        /\ now - ord[id].timestamp > ord[id].max_latency}

\* C17, latency-budget violation: a process_events call that pops orders
\* whose latency budget is exceeded counts each of them in latency_violations,
\* puts none of them in a book, returns no trade, does not count them in
\* orders_processed, raises no error, and goes on with the remaining due
\* events (none is left in the queue).
C17_LatencyBudgetViolation ==
    [][(IsDrain /\ Violators # {})
       => /\ ret'.exc = "none"
          /\ ret'.val = <<>>
          /\ stats'.latency_violations
               = stats.latency_violations + Cardinality(Violators)
          /\ stats'.orders_processed
               = stats.orders_processed
                 + Cardinality((Queued(event_queue) \ Queued(event_queue'))
                               \ Violators)
          /\ \A id \in Violators :
                \A symbol \in DOMAIN books : id \notin books'[symbol].orders
          /\ \A id \in Queued(event_queue') :
                ord[id].effective_timestamp > now]_vars

\* a step is a call of reset
IsReset == ret'.op = "reset" /\ now' = now

\* the book b is empty and reports no best bid, best ask or last price
BookCleared(b, o, t) ==
    /\ b.bids = <<>>
    /\ HasAttr(b, "asks")
    /\ b.asks = <<>>
    /\ b.orders = {}
    /\ b.trades = <<>>
    /\ b.last_trade_price = None
    /\ b.last_trade_quantity = 0
    /\ GetMarketData(b, o, t).exc = "none"
    /\ GetMarketData(b, o, t).val.best_bid = None
    /\ GetMarketData(b, o, t).val.best_ask = None
    /\ GetMarketData(b, o, t).val.last_price = None

\* C18, reset clears all dynamic state: after reset() the event queue is
\* empty, every book has empty heaps, an empty orders index and an empty trade
\* log, no last-trade price and a last-trade quantity of 0, all counters are 0
\* and the per-agent maps are empty, and get_market_data of every symbol
\* reports no best bid, no best ask and no last price.
C18_ResetClearsAll ==
    [][IsReset
       => /\ ret'.exc = "none"
          /\ event_queue' = <<>>
          /\ stats' = InitStats
          /\ \A symbol \in DOMAIN books' :
                BookCleared(books'[symbol], ord', now')]_vars

\* C19, reset frame: reset() leaves the set of order books (one per symbol of
\* the engine's symbol list, each keeping its symbol), the registered latency
\* profiles, the trade callback list and the market-data callback list as
\* they were.
C19_ResetFrame ==
    [][IsReset
       => /\ DOMAIN books' = SymbolSet
          /\ DOMAIN books' = DOMAIN books
          /\ \A symbol \in DOMAIN books : books'[symbol].symbol = symbol
          /\ latency_profiles' = latency_profiles
          /\ trade_callbacks' = trade_callbacks
          /\ market_data_callbacks' = market_data_callbacks]_vars

\* reset was called with a profile registered, callbacks added and an order
\* submitted
C19_Witness ==
    /\ ret.op = "reset"
    /\ DOMAIN latency_profiles # {}
    /\ trade_callbacks # <<>>
    /\ market_data_callbacks # <<>>
    /\ DOMAIN ord # {}
    /\ event_queue = <<>>

\* a step is a call of submit_order (it registers a new Order object)
IsSubmit == ret'.op = "submit_order" /\ DOMAIN ord' # DOMAIN ord

\* the order submitted by the step
SubmittedId == ret'.args[1]

\* C20, unknown symbol: submit_order of an order whose symbol is not in the
\* engine's symbol set raises an error to the caller and leaves the event
\* queue as it was.
C20_UnknownSymbolRejected ==
    [][(IsSubmit /\ ord'[SubmittedId].symbol \notin SymbolSet)
       => /\ ret'.exc # "none"
          /\ event_queue' = event_queue]_vars

\* the Order o satisfies the construction rules of the specification
ValidOrder(o) ==
    /\ o.quantity > 0
    /\ o.order_type = "limit" => (o.price # None /\ o.price > 0)
    /\ o.order_type = "market" => o.price = None

\* C21, order validation: the Order constructor raises for a quantity <= 0,
\* for a LIMIT order without a price or with a price that is not > 0, and for
\* a MARKET order with a price; so every order an event of the queue carries,
\* and every order a book indexes, satisfies these rules.
C21_OnlyValidOrders ==
    /\ \A id \in Queued(event_queue) : ValidOrder(ord[id])
    /\ \A symbol \in DOMAIN books :
          \A id \in books[symbol].orders : ValidOrder(ord[id])

\* C22, submit does not match: submit_order(order) returns order.order_id,
\* adds exactly one new_order event for the order to the event queue, and
\* leaves every book, every statistic and the order's status and filled
\* quantity as they were.
C22_SubmitDoesNotMatch ==
    [][IsSubmit
       => /\ ret'.exc = "none"
          /\ ret'.val = ord'[SubmittedId].order_id
          /\ Len(event_queue') = Len(event_queue) + 1
          /\ Queued(event_queue') = Queued(event_queue) \cup {SubmittedId}
          /\ \A k \in 1..Len(event_queue') :
                event_queue'[k].order = SubmittedId
                => event_queue'[k].event_type = "new_order"
          /\ books' = books
          /\ stats' = stats
          /\ ord'[SubmittedId].status = "pending"
          /\ ord'[SubmittedId].filled_quantity = 0]_vars

\* C23, latency assignment at submit: submit_order sets the order's
\* latency_delay to a sample of the submitter's registered latency profile,
\* or of the default profile when the agent has none, and effective_timestamp
\* to timestamp + latency_delay, which is the timestamp of the queued event;
\* a latency preset by the caller is not used.
C23_LatencyAssignment ==
    [][IsSubmit
       => /\ ord'[SubmittedId].latency_delay
               \in GetLatency(IF ord'[SubmittedId].agent_id
                                   \in DOMAIN latency_profiles
                              THEN latency_profiles[ord'[SubmittedId].agent_id]
                              ELSE DefaultProfile)
          /\ ord'[SubmittedId].effective_timestamp
               = ord'[SubmittedId].timestamp + ord'[SubmittedId].latency_delay
          /\ \A k \in 1..Len(event_queue') :
                event_queue'[k].order = SubmittedId
                => event_queue'[k].timestamp
                     = ord'[SubmittedId].effective_timestamp]_vars

\* the orders in the entries of the side heaps of book b
InHeaps(b) ==
    {b.bids[k][3] : k \in 1..Len(b.bids)}
    \cup (IF HasAttr(b, "asks") THEN {b.asks[k][3] : k \in 1..Len(b.asks)}
          ELSE {})

\* C24, market orders never rest: add_order of a MARKET order returns with
\* the order in neither side heap nor the orders index; when no order rests on
\* the opposite side it returns no trade and leaves the statistics alone; the
\* order's status is FILLED iff filled = quantity, PARTIAL_FILL iff
\* 0 < filled < quantity and PENDING iff filled = 0.
C24_MarketNeverRests ==
    [][(IsAddOrder /\ ord'[AddedId].order_type = "market")
       => /\ ret'.exc = "none"
          /\ AddedId \notin books'[AddedSymbol].orders
          /\ AddedId \notin InHeaps(books'[AddedSymbol])
          /\ Resting(books, ord, AddedSymbol,
                     Opposite(ord'[AddedId].side)) = {}
             => (ret'.val = <<>> /\ stats' = stats)
          /\ ord'[AddedId].status = "filled"
             <=> ord'[AddedId].filled_quantity = ord'[AddedId].quantity
          /\ ord'[AddedId].status = "partial_fill"
             <=> (0 < ord'[AddedId].filled_quantity
                  /\ ord'[AddedId].filled_quantity < ord'[AddedId].quantity)
          /\ ord'[AddedId].status = "pending"
             <=> ord'[AddedId].filled_quantity = 0]_vars

\* the step is a call of get_depth on a book (the clock stands during a call)
IsDepthCall == ret'.op = "get_depth" /\ now' = now

RECURSIVE SumRemaining(_, _)
\* the sum of the remaining quantities of the orders ids
SumRemaining(ids, o) ==
    IF ids = {} THEN 0
    ELSE LET i == CHOOSE x \in ids : TRUE
         IN  Remaining(o[i]) + SumRemaining(ids \ {i}, o)

\* the prices at which orders of the side rest in the symbol's book
RestingPrices(bk, o, symbol, side) ==
    {o[i].price : i \in Resting(bk, o, symbol, side)}

\* list is the depth of the side: the best `levels' resting prices, best
\* first (descending for buy, ascending for sell), each with the sum of the
\* remaining quantities of the orders resting at it
IsDepthOf(list, bk, o, symbol, side, levels) ==
    /\ Len(list) = Min(levels, Cardinality(RestingPrices(bk, o, symbol, side)))
    /\ \A k \in 1..Len(list) :
          /\ list[k][1] \in RestingPrices(bk, o, symbol, side)
          /\ list[k][2]
               = SumRemaining({i \in Resting(bk, o, symbol, side) :
                                 o[i].price = list[k][1]}, o)
          /\ \A p \in RestingPrices(bk, o, symbol, side) :
                (IF side = "buy" THEN p > list[k][1] ELSE p < list[k][1])
                => \E j \in 1..(k - 1) : list[j][1] = p
    /\ \A j \in 1..Len(list) : \A k \in (j + 1)..Len(list) :
          IF side = "buy" THEN list[j][1] > list[k][1]
          ELSE list[j][1] < list[k][1]

\* C25, depth: get_depth(levels) returns as bids the resting buy price levels
\* in descending price order and as asks the resting sell price levels in
\* ascending price order, each with the sum of the remaining quantities of
\* the orders resting at the price, each list cut to `levels' entries; a book
\* with resting BUY orders gets a non-empty bids list.
C25_Depth ==
    [][IsDepthCall
       => /\ ret'.exc = "none"
          /\ IsDepthOf(ret'.val.bids, books', ord', ret'.args[1], "buy",
                       DefaultLevels)
          /\ IsDepthOf(ret'.val.asks, books', ord', ret'.args[1], "sell",
                       DefaultLevels)]_vars

\* the step is a call of process_events that pops one new_order event whose
\* order can trade with an order resting in its symbol's book
IsTradingDrain ==
    /\ ret'.op = "process_events"
    /\ Len(popped') = Len(popped) + 1
    /\ ord[event_queue[1].order].symbol \in SymbolSet
    /\ Counterparts(books, ord, ord[event_queue[1].order].symbol,
                    ord[event_queue[1].order]) # {}

\* the calls of callbacks the step makes
NewCalls == SubSeq(callback_calls', Len(callback_calls) + 1, Len(callback_calls'))

\* the arguments of the calls, among calls, of a callback of a list
ArgsOf(calls, list, callback) ==
    LET to == SelectSeq(calls, LAMBDA c : c.list = list /\ c.callback = callback)
    IN  [k \in 1..Len(to) |-> to[k].arg]

\* how often a callback is registered in a list
Registrations(callbacks, callback) ==
    Cardinality({i \in 1..Len(callbacks) : callbacks[i] = callback})

\* C26, market-data dispatch: a process_events call that pops one new_order
\* event whose order can trade with a resting order, market-data callbacks
\* being registered, completes with at least one trade, and calls every
\* registered market-data callback exactly once with the market data of each
\* symbol a returned trade is for, and for no other symbol.
C26_MarketDataDispatch ==
    [][(IsTradingDrain /\ Len(market_data_callbacks) > 0)
       => /\ ret'.exc = "none"
          /\ Len(ret'.val) > 0
          /\ \A i \in 1..Len(market_data_callbacks), symbol \in SymbolSet :
                LET args == ArgsOf(NewCalls, "market_data_callbacks",
                                   market_data_callbacks[i])
                IN  Cardinality({k \in 1..Len(args) : args[k].symbol = symbol})
                      = IF \E j \in 1..Len(ret'.val) : ret'.val[j].symbol = symbol
                        THEN Registrations(market_data_callbacks,
                                           market_data_callbacks[i])
                        ELSE 0]_vars

\* C27, trade callback order: a process_events call that pops one new_order
\* event whose order can trade with a resting order, trade callbacks being
\* registered, completes with at least one trade, and every registered trade
\* callback is called with each returned trade exactly once, in the order of
\* the returned trade list.
C27_TradeCallbackOrder ==
    [][(IsTradingDrain /\ Len(trade_callbacks) > 0)
       => /\ ret'.exc = "none"
          /\ Len(ret'.val) > 0
          /\ \A i \in 1..Len(trade_callbacks) :
                Registrations(trade_callbacks, trade_callbacks[i]) = 1
                => ArgsOf(NewCalls, "trade_callbacks", trade_callbacks[i])
                     = ret'.val]_vars

\* the step is the drain of a process_events call made by the worker: it
\* leaves the with block it was in
IsWorkerDrain ==
    /\ position[Worker].at = "process_events"
    /\ lock = Worker
    /\ lock' = Unlocked

\* C28, stop joins the worker: running is set by start_simulation and cleared
\* by stop_simulation only, so once stop_simulation has returned (and the
\* simulation has not been started again) it is false; the worker then runs
\* no process_events call (in which the callbacks are called).
C28_StopJoinsWorker == [][IsWorkerDrain => running]_vars

\* the thread is inside code that reads or changes a book or the event
\* queue: in the with block of submit_order or process_events, or in
\* get_order_book_depth
InBookOrQueueCode(t) ==
    \/ position[t].at \in {"submit_order", "process_events"} /\ lock = t
    \/ position[t].at = "get_order_book_depth"

\* C29, mutex discipline: a thread inside code that reads or changes a book
\* or the event queue holds the engine lock, so that no two threads are
\* inside such code at the same time.
C29_MutexDiscipline ==
    /\ \A t \in Threads : InBookOrQueueCode(t) => lock = t
    /\ Cardinality({t \in Threads : InBookOrQueueCode(t)}) <= 1

\* the orders submit_order has been run for
Submitted ==
    DOMAIN ord \ {position[t].order : t \in {u \in Users :
                                               position[u].at = "submit_order"}}

\* how often the order is in the list of order ids
Occurrences(ids, id) == Cardinality({k \in 1..Len(ids) : ids[k] = id})

\* the order ids of the events of the queue
QueueIds(q) == [k \in 1..Len(q) |-> q[k].order]

\* the list is a heap under OrderEvent.__lt__
IsEventHeap(q) ==
    \A k \in 2..Len(q) : ~(q[k].timestamp < q[k \div 2].timestamp)

\* C30, concurrent submission loses nothing: whatever the interleaving of the
\* threads calling submit_order and process_events, every order submit_order
\* has been run for is either in the event queue, once, or has been popped by
\* process_events, once; no other order is in the queue or has been popped;
\* and the queue is a heap.
C30_NoEventLost ==
    /\ \A id \in Submitted :
          Occurrences(QueueIds(event_queue), id) + Occurrences(popped, id) = 1
    /\ \A id \in DOMAIN ord \ Submitted :
          Occurrences(QueueIds(event_queue), id) + Occurrences(popped, id) = 0
    /\ IsEventHeap(event_queue)

\* a thread is in the with block of submit_order while another thread waits
\* for the lock in submit_order or process_events, an order submitted before
\* being queued or popped
C30_Witness ==
    /\ lock \in Users
    /\ position[lock].at = "submit_order"
    /\ \E t \in Threads \ {lock} :
          position[t].at \in {"submit_order", "process_events"}
    /\ Submitted # {}

\* the status changes of an order the lifecycle allows
StatusMoves ==
    {<<"pending", "partial_fill">>, <<"pending", "filled">>,
     <<"partial_fill", "filled">>, <<"pending", "cancelled">>,
     <<"partial_fill", "cancelled">>}

\* how often the order is in the side heaps of book b
HeapEntries(b, id) ==
    Cardinality({k \in 1..Len(b.bids) : b.bids[k][3] = id})
    + (IF HasAttr(b, "asks")
       THEN Cardinality({k \in 1..Len(b.asks) : b.asks[k][3] = id}) ELSE 0)

\* C31, order status lifecycle: in every step an order's status stays or makes
\* one of the moves PENDING -> PARTIAL_FILL -> FILLED, PENDING/PARTIAL_FILL ->
\* CANCELLED; an order that is FILLED or CANCELLED keeps its status and its
\* filled quantity, and enters no index and no side heap it was not in.
C31_StatusLifecycle ==
    [][\A id \in DOMAIN ord :
        /\ ord'[id].status # ord[id].status
           => <<ord[id].status, ord'[id].status>> \in StatusMoves
        /\ ord[id].status \in {"filled", "cancelled"}
           => /\ ord'[id].status = ord[id].status
              /\ ord'[id].filled_quantity = ord[id].filled_quantity
              /\ \A symbol \in SymbolSet :
                    /\ id \in books'[symbol].orders => id \in books[symbol].orders
                    /\ HeapEntries(books'[symbol], id)
                         <= HeapEntries(books[symbol], id)]_vars

\* C32, cancel cannot recall a queued order: the engine's cancel_order for an
\* order whose event is in the queue and that is in no book returns false,
\* and leaves the event queue, the books and the order (status PENDING) as
\* they were, so that a later process_events still pops and books the order.
C32_CancelCannotRecall ==
    [][(/\ IsEngineCancel
        /\ EngineCancelledId \in Queued(event_queue)
        /\ ~RestsSomewhere(books, ord, EngineCancelledId))
       => /\ ret'.exc = "none"
          /\ ret'.val = FALSE
          /\ event_queue' = event_queue
          /\ books' = books
          /\ ord'[EngineCancelledId].status = "pending"]_vars

\* C33, positive latency: get_latency() returns a delay > 0 for every profile
\* with base_latency >= 0, jitter >= 0 and packet_loss_rate in [0, 1] (so
\* that timestamp + delay is never earlier than timestamp).
C33_PositiveLatency == ret.op = "get_latency" => ret.val > 0

\* C34, trade timestamp: the timestamp of a trade _create_trade builds is the
\* effective timestamp of the buy order or of the sell order, and is >= both
\* (it is their maximum).
C34_TradeTimestamp ==
    ret.op = "_create_trade"
    => /\ ret.val.timestamp \in {ret.args[1].effective_timestamp,
                                 ret.args[2].effective_timestamp}
       /\ ret.val.timestamp >= ret.args[1].effective_timestamp
       /\ ret.val.timestamp >= ret.args[2].effective_timestamp

\* a trade was built for a sell order whose effective timestamp is later than
\* the buy order's
C34_Witness ==
    /\ ret.op = "_create_trade"
    /\ ret.args[2].effective_timestamp > ret.args[1].effective_timestamp
    /\ ret.val.timestamp = ret.args[2].effective_timestamp

\* how often the order is in the named side heap of book b (a heap the book
\* does not have holds nothing)
EntriesIn(b, heapname, id) ==
    IF HasAttr(b, heapname)
    THEN Cardinality({k \in 1..Len(b[heapname]) : b[heapname][k][3] = id})
    ELSE 0

\* C35, index/heap consistency: every order in a book's orders index has
\* status PENDING or PARTIAL_FILL and remaining > 0, and, when it is a LIMIT
\* order, is exactly once in the heap of its side (bids for BUY, asks for
\* SELL) and not in the other heap; this holds after the reads too.
C35_IndexHeapConsistency ==
    \A symbol \in SymbolSet :
        \A id \in books[symbol].orders :
            /\ ord[id].status \in {"pending", "partial_fill"}
            /\ Remaining(ord[id]) > 0
            /\ ord[id].order_type = "limit"
               => /\ EntriesIn(books[symbol], OwnHeap(ord[id].side), id) = 1
                  /\ EntriesIn(books[symbol], OppHeap(ord[id].side), id) = 0

\* C36, maximal matching of a limit order: add_order of a new LIMIT order
\* completes with the order filled for min(its quantity, the total remaining
\* quantity of the resting opposite-side orders its limit crosses), the sum
\* of the returned trades' quantities being that fill; a remainder > 0 is in
\* the orders index and once in the heap of its side, and no remainder rests
\* otherwise.
C36_MaximalMatching ==
    [][(IsAddOrder /\ ord'[AddedId].order_type = "limit")
       => /\ ret'.exc = "none"
          /\ ord'[AddedId].filled_quantity
               = Min(ord'[AddedId].quantity,
                     SumRemaining(Counterparts(books, ord, AddedSymbol,
                                               ord'[AddedId]), ord))
          /\ SumQty(ret'.val, Len(ret'.val)) = ord'[AddedId].filled_quantity
          /\ IF Remaining(ord'[AddedId]) > 0
             THEN /\ AddedId \in books'[AddedSymbol].orders
                  /\ EntriesIn(books'[AddedSymbol],
                               OwnHeap(ord'[AddedId].side), AddedId) = 1
             ELSE AddedId \notin books'[AddedSymbol].orders]_vars

\* the step is a call of get_market_data on a book
IsMarketDataCall == ret'.op = "get_market_data" /\ now' = now

\* the highest (sign 1) or lowest (sign -1) of the prices, None when there is
\* none
BestPrice(prices, sign) ==
    IF prices = {} THEN None
    ELSE CHOOSE p \in prices : \A q \in prices : sign * p >= sign * q

\* the snapshot's best price and size of a side are those of the orders
\* resting on the side
IsTopOf(best, size, bk, o, symbol, side, sign) ==
    /\ best = BestPrice(RestingPrices(bk, o, symbol, side), sign)
    /\ size = SumRemaining({i \in Resting(bk, o, symbol, side) :
                               o[i].price = best}, o)

\* C37, top-of-book size: get_market_data() returns a snapshot whose best_bid
\* (best_ask) is the highest resting buy price (lowest resting sell price),
\* None when no order rests on the side, and whose bid_size (ask_size) is
\* the sum of the remaining quantities of the resting orders at that price.
C37_TopOfBookSize ==
    [][IsMarketDataCall
       => /\ ret'.exc = "none"
          /\ IsTopOf(ret'.val.best_bid, ret'.val.bid_size, books, ord,
                     ret'.args[1], "buy", 1)
          /\ IsTopOf(ret'.val.best_ask, ret'.val.ask_size, books, ord,
                     ret'.args[1], "sell", -1)]_vars

\* the orders added before that tie with the incoming LIMIT order x: same
\* symbol, side, price and creation timestamp, and still resting
TiedWith(bk, o, x) ==
    {j \in Resting(bk, o, x.symbol, x.side) :
        /\ o[j].order_type = "limit"
        /\ o[j].price = x.price
        /\ o[j].timestamp = x.timestamp}

\* C38, deterministic tie-break: add_order of a LIMIT order that ties in
\* price and creation timestamp with an order resting on its side completes
\* without an exception, both orders then being once in the side's heap, the
\* one with the smaller identifier nearer the root.
C38_TieBreak ==
    [][(/\ IsAddOrder
        /\ ord'[AddedId].order_type = "limit"
        /\ TiedWith(books, ord, ord'[AddedId]) # {})
       => /\ ret'.exc = "none"
          /\ \A j \in TiedWith(books, ord, ord'[AddedId]) \cup {AddedId} :
                EntriesIn(books'[AddedSymbol], OwnHeap(ord'[AddedId].side), j) = 1
          /\ LET heap == books'[AddedSymbol][OwnHeap(ord'[AddedId].side)]
             IN  \A k \in 1..Len(heap), l \in 1..Len(heap) :
                    (heap[k][1] = heap[l][1] /\ heap[k][2] = heap[l][2]
                       /\ heap[k][3] < heap[l][3])
                    => k < l]_vars

RECURSIVE SumPositions(_, _, _)
\* the sum over the agents of agent_positions[agent][symbol]
SumPositions(st, agents, symbol) ==
    IF agents = {} THEN 0
    ELSE LET a == CHOOSE x \in agents : TRUE
         IN  PositionOf(st, a, symbol) + SumPositions(st, agents \ {a}, symbol)

\* C39, zero-sum positions: accounting a trade completes and leaves, for
\* every symbol, the sum of agent_positions over all agents at 0, the buyer
\* of the trade holding its quantity more and the seller its quantity less
\* than before, and a self-trade leaving the agent's position as it was.
C39_ZeroSumPositions ==
    [][IsTradeUpdate
       => /\ ret'.exc = "none"
          /\ \A symbol \in SymbolSet : SumPositions(stats', Agents, symbol) = 0
          /\ LET buyer == UpdatedTrade.buyer_agent_id
                 seller == UpdatedTrade.seller_agent_id
                 held(st, agent) == PositionOf(st, agent, UpdatedTrade.symbol)
             IN  IF buyer = seller
                 THEN held(stats', buyer) = held(stats, buyer)
                 ELSE /\ held(stats', buyer)
                           = held(stats, buyer) + UpdatedTrade.quantity
                      /\ held(stats', seller)
                           = held(stats, seller) - UpdatedTrade.quantity]_vars

\* the threads running simulation_loop
Alive == {w \in Workers : position[w].at \in {"while", "loop_body",
                                               "process_events"}}

\* C40, single drain worker: whatever the sequence of start_simulation and
\* stop_simulation calls, at most one thread is running the process_events
\* loop.
C40_SingleWorker == Cardinality(Alive) <= 1

====
